---- MODULE Spec2Model ----
(***************************************************************************)
(* vmnetfs: the demand-paged chunk I/O engine of one image.               *)
(*                                                                         *)
(* Worker threads call _vmnetfs_io_read_chunk / _vmnetfs_io_write_chunk   *)
(* and the truncate entry point concurrently.  The state is the chunk     *)
(* lock table with its pinned image size (struct chunk_state), the three  *)
(* bitmaps, the pristine cache directory, the overlay file and the        *)
(* counters kept by io.c.  Each thread advances through the blocking      *)
(* points of its call: the table-mutex critical sections of chunk_trylock *)
(* and chunk_unlock, the network fetch, and the file I/O on either store. *)
(***************************************************************************)
EXTENDS Integers, Sequences, FiniteSets, TLC

----------------------------------------------------------------------------
(* Bounds of the model *)

NumThreads == 2
MaxOps == 2
ChunkSize == 3
InitialSize == 5
MaxByte == 2
MaxShort == 1
MaxPartial == 1
MaxCut == 2
\* the highest bit index the bitmap streams are checked with
MaxBit == 2
\* the longest range a FUSE read or write call asks for
MaxCount == 3
\* how many times the image is initialised over its cache directory
MaxMounts == 2
\* how many foreign entries the cache directory holds
MaxExtra == 1
\* the largest segment size, start and length fetch_data is checked with
MaxSeg == 3
MaxFetch == 4
\* how many observer handles and poll handles a counter gets, and how many
\* times it is incremented
MaxHandles == 2
MaxPolls == 2
MaxIncr == 2
\* how many fetches run on the connection pool in all
MaxFetches == 3
\* how many threads contend for chunk locks, and how many calls they make
NumLockThreads == 3
MaxLockOps == 4
\* the longest file _vmnetfs_safe_pread reads from, the most calls of pread
\* in one run of its loop, and the most system errors that pread reports
MaxFileLen == 3
MaxPreads == 4
MaxPreadErrors == 1
\* the largest chunk size and the largest start of the ranges a cursor walks
MaxChunkSize == 3
MaxStart == 4
\* the longest range of one transfer, the most bytes curl hands to
\* write_callback in one call, and the most calls in one transfer
MaxLength == 3
MaxDeliver == 2
MaxCalls == 4

(* Program constants *)

TRANSPORT_TRIES == 5
CHUNKS_PER_DIR == 4096

----------------------------------------------------------------------------
Threads == 1..NumThreads
Byte == 0..MaxByte

MIN(a, b) == IF a < b THEN a ELSE b

\* number of chunks of the image, rounded up
chunks == (InitialSize + ChunkSize - 1) \div ChunkSize
ChunkIds == 0..(chunks - 1)

\* The origin serves deterministic bytes, all of them below MaxByte.
OriginByte(i) == i % MaxByte
OriginRange(start, count) == [i \in 1..count |-> OriginByte(start + i - 1)]

Fill(n, b) == [i \in 1..n |-> b]

----------------------------------------------------------------------------
(* Bitmap: bits plus the allocated size of the backing store *)

RECURSIVE g_bit_storage(_)
g_bit_storage(n) == IF n < 2 THEN 1 ELSE 1 + g_bit_storage(n \div 2)

_vmnetfs_bit_new == [bits |-> {}, allocated_bytes |-> 0]

\* _vmnetfs_bit_set starting from a zeroed store whenever it grows it
_vmnetfs_bit_set_loses_on_grow(map, bit) ==
    LET grows == bit >= map.allocated_bytes * 8
        grown == IF grows
                 THEN 2 ^ g_bit_storage((bit + 7) \div 8)
                 ELSE map.allocated_bytes
    IN [bits |-> IF grows THEN {bit} ELSE map.bits \cup {bit},
        allocated_bytes |-> grown]

_vmnetfs_bit_set(map, bit) ==
    LET grown == IF bit >= map.allocated_bytes * 8
                 THEN 2 ^ g_bit_storage((bit + 7) \div 8)
                 ELSE map.allocated_bytes
    IN [bits |-> map.bits \cup {bit}, allocated_bytes |-> grown]

_vmnetfs_bit_test(map, bit) ==
    bit < map.allocated_bytes * 8 /\ bit \in map.bits

\* the bits set in a bitmap
BitsOf(map) ==
    {b \in 0..(map.allocated_bytes * 8 - 1) : _vmnetfs_bit_test(map, b)}

----------------------------------------------------------------------------
(* Files: a pristine chunk file is a byte sequence; the overlay is one     *)
(* sparse file whose holes read as zero.                                    *)

\* contents of file f after count bytes of buf were written at offset
PWriteBytes(f, buf, count, offset) ==
    LET newlen == IF offset + count > Len(f) THEN offset + count ELSE Len(f)
    IN [i \in 1..newlen |->
            IF i > offset /\ i <= offset + count THEN buf[i - offset]
            ELSE IF i <= Len(f) THEN f[i]
            ELSE 0]

\* bytes pread can deliver from file f in [offset, offset + count)
PReadBytes(f, count, offset) ==
    LET avail == IF Len(f) > offset THEN MIN(Len(f) - offset, count) ELSE 0
    IN [i \in 1..avail |-> f[offset + i]]

\* _vmnetfs_safe_pread on a file that is read without a system error
_vmnetfs_safe_pread(f, count, offset) ==
    LET got == PReadBytes(f, count, offset)
    IN IF Len(got) = count
       THEN [ret |-> TRUE, err |-> "none", data |-> got]
       ELSE [ret |-> FALSE, err |-> "PREMATURE_EOF", data |-> got]

\* _vmnetfs_safe_pwrite: written = count on success, else the bytes that
\* reached the file before pwrite reported an error
_vmnetfs_safe_pwrite(f, buf, count, offset, written) ==
    [ret |-> (written = count),
     err |-> IF written = count THEN "none" ELSE "FILE",
     file |-> PWriteBytes(f, buf, written, offset)]

----------------------------------------------------------------------------
(* Transport: one attempt, and the retry loop around it.  An attempt is    *)
(* described by what curl and the server did: the header lines of every   *)
(* response of the redirect chain, the file time curl reports, how many   *)
(* body bytes reached write_callback, and how curl_easy_perform ended.    *)
(* The chunk buffer comes from g_malloc, so the bytes the transfer did    *)
(* not deliver hold whatever the allocator left there (tail).             *)

\* conn->etag == NULL
NoEtag == "NULL"

\* header_callback keeping the ETag it holds when a new response begins
header_callback_keeps_etag(etag, line) ==
    IF line.kind = "etag" THEN line.value
    ELSE etag

\* header_callback: one header line of a response
header_callback(etag, line) ==
    IF line.kind = "status" THEN NoEtag
    ELSE IF line.kind = "etag" THEN line.value
    ELSE etag

\* curl hands every header line of every response to header_callback
RECURSIVE headers(_, _)
headers(etag, lines) ==
    IF lines = <<>> THEN etag
    ELSE headers(header_callback(etag, Head(lines)), Tail(lines))

\* the header lines of one response that carries ETag e, or none
Response(e) ==
    <<[kind |-> "status", value |-> ""], [kind |-> "other", value |-> e]>>
    \o (IF e = NoEtag THEN <<>> ELSE <<[kind |-> "etag", value |-> e]>>)

\* validators of an image: the expected ETag (NoEtag if none) and the
\* expected modification time (0 if none)
Validators == {[etag |-> e, last_modified |-> m] : e \in {NoEtag, "v1"},
                                                  m \in {0, 1}}

\* the validators of the image the engine serves
ImgValidators == [etag |-> "v1", last_modified |-> 1]

check_validators(cfg, etag, filetime) ==
    IF cfg.etag # NoEtag /\ etag = NoEtag THEN "FATAL"
    ELSE IF cfg.etag # NoEtag /\ cfg.etag # etag THEN "FATAL"
    ELSE IF cfg.last_modified # 0 /\ filetime # cfg.last_modified THEN "FATAL"
    ELSE "none"

\* progress_callback never asking curl to abort
progress_callback_never_aborts(should_cancel, cancel) == FALSE

\* progress_callback: a nonzero return makes curl abort the transfer
progress_callback(should_cancel, cancel) ==
    IF should_cancel THEN cancel ELSE FALSE

\* write_callback over the body bytes of one transfer: the validators are
\* checked when the first bytes arrive, then the bytes are copied
write_callback(cfg, etag, att, length) ==
    IF att.delivered = 0
    THEN [err |-> "none", offset |-> 0]
    ELSE IF check_validators(cfg, etag, att.filetime) # "none"
    THEN [err |-> "FATAL", offset |-> 0]
    ELSE [err |-> "none", offset |-> MIN(att.delivered, length)]

\* the byte counts a transfer that ends early can have delivered
ShortLengths(length) ==
    {k \in 0..(length - 1) : k >= length - MaxShort}

\* the byte counts at which a pwrite of count bytes can fail
PartialLengths(count) ==
    {n \in 0..(count - 1) : n <= MaxPartial}

Attempt(hdrs, filetime, code, cancel, delivered, tail) ==
    [hdrs |-> hdrs, filetime |-> filetime, code |-> code, cancel |-> cancel,
     delivered |-> delivered, tail |-> tail]

\* responses whose validators differ from ImgValidators: another ETag, no
\* ETag, the expected ETag only on the redirect, another file time
BadResponses ==
    {<<Response("v2"), 1>>, <<Response(NoEtag), 1>>,
     <<Response("v1") \o Response("v2"), 1>>,
     <<Response("v1") \o Response(NoEtag), 1>>,
     <<Response("v1"), 2>>}

Attempts(length) ==
    {Attempt(Response("v1"), 1, "OK", FALSE, length, 0),
     Attempt(Response("v2") \o Response("v1"), 1, "OK", FALSE, length, 0)}
    \cup {Attempt(Response("v1"), 1, "OK", FALSE, k, g) :
             k \in ShortLengths(length), g \in Byte}
    \cup {Attempt(r[1], r[2], "OK", FALSE, k, 0) :
             r \in BadResponses, k \in {0, length}}
    \cup {Attempt(Response("v1"), 1, c, FALSE, 0, 0) : c \in {"NETWORK", "OTHER"}}
    \cup {Attempt(Response("v1"), 1, "OK", TRUE, 0, 0)}

NetworkFailure == Attempt(Response("v1"), 1, "NETWORK", FALSE, 0, 0)

\* fetch() on a connection whose etag field holds etag0: one attempt for
\* [offset, offset + length) into buf
fetch_with(cfg, etag0, att, offset, length) ==
    LET etag == headers(etag0, att.hdrs)
        w == write_callback(cfg, etag, att, length)
        buf == [i \in 1..length |->
                   IF i <= w.offset THEN OriginByte(offset + i - 1)
                   ELSE att.tail]
        code == IF progress_callback(TRUE, att.cancel) THEN "ABORTED"
                ELSE att.code
    IN IF w.err # "none"
       THEN [ret |-> FALSE, err |-> w.err, buf |-> buf, etag |-> etag]
       ELSE CASE code = "OK" ->
                   [ret |-> TRUE,
                    err |-> IF w.offset # length THEN "FATAL" ELSE "none",
                    buf |-> buf, etag |-> etag]
              [] code = "NETWORK" ->
                   [ret |-> FALSE, err |-> "NETWORK", buf |-> buf, etag |-> etag]
              [] code = "ABORTED" ->
                   [ret |-> FALSE, err |-> "INTERRUPTED", buf |-> buf,
                    etag |-> etag]
              [] OTHER ->
                   [ret |-> FALSE, err |-> "FATAL", buf |-> buf, etag |-> etag]

\* fetch() for the image: conn_get returns a connection whose etag field
\* is NULL, as conn_new and conn_put leave it
fetch(att, offset, length) ==
    fetch_with(ImgValidators, NoEtag, att, offset, length)

\* the for loop of _vmnetfs_transport_fetch, entered at iteration i
RECURSIVE transport_loop(_, _, _, _, _)
transport_loop(i, my_err, atts, offset, length) ==
    IF i >= TRANSPORT_TRIES
    THEN [ret |-> FALSE, err |-> my_err, buf |-> <<>>, tries |-> i]
    ELSE LET r == fetch(atts[i + 1], offset, length)
         IN IF r.ret
            THEN [ret |-> TRUE, err |-> "none", buf |-> r.buf, tries |-> i + 1]
            ELSE IF r.err # "NETWORK"
            THEN [ret |-> FALSE, err |-> r.err, buf |-> <<>>, tries |-> i + 1]
            ELSE transport_loop(i + 1, r.err, atts, offset, length)

_vmnetfs_transport_fetch(atts, offset, length) ==
    transport_loop(0, "none", atts, offset, length)

\* what the network can do to one call: some network failures, then an
\* attempt of any kind, repeated for the remaining tries
AttemptSeqs(length) ==
    {[i \in 1..TRANSPORT_TRIES |-> IF i <= n THEN NetworkFailure ELSE a] :
        n \in 0..TRANSPORT_TRIES, a \in Attempts(length)}

\* fetch_data for an unsegmented origin: one request for the whole range
fetch_data(atts, start, count) ==
    IF count > 0
    THEN _vmnetfs_transport_fetch(atts, start, count)
    ELSE [ret |-> TRUE, err |-> "none", buf |-> <<>>, tries |-> 0]

FetchOutcomes(start, count) ==
    {[ret |-> r.ret, err |-> r.err, buf |-> r.buf] :
        r \in {fetch_data(atts, start, count) : atts \in AttemptSeqs(count)}}

\* fetch_data for the whole or the leading part of each chunk, computed once
FetchTable ==
    [c \in ChunkIds |-> [n \in 1..ChunkSize |-> FetchOutcomes(c * ChunkSize, n)]]

----------------------------------------------------------------------------
(* I/O engine helpers *)

\* constrain_io letting through an I/O that starts exactly at the image size
constrain_io_start_at_eof(size, chunk, offset, length) ==
    IF chunk * ChunkSize + offset > size
    THEN [ret |-> FALSE, err |-> "EOF", length |-> length]
    ELSE [ret |-> TRUE, err |-> "none",
          length |-> MIN(size - chunk * ChunkSize, length)]

constrain_io(size, chunk, offset, length) ==
    IF chunk * ChunkSize + offset >= size
    THEN [ret |-> FALSE, err |-> "EOF", length |-> length]
    ELSE [ret |-> TRUE, err |-> "none",
          length |-> MIN(size - chunk * ChunkSize, length)]

\* the g_assert lines of _vmnetfs_ll_pristine_read_chunk
pristine_read_asserts(present, chunk, offset, length) ==
    /\ _vmnetfs_bit_test(present, chunk)
    /\ offset < ChunkSize
    /\ offset + length <= ChunkSize
    /\ chunk * ChunkSize + offset + length <= InitialSize

\* files is the cache directory: chunk number -> file contents
_vmnetfs_ll_pristine_read_chunk(files, present, chunk, offset, length, opened) ==
    IF ~pristine_read_asserts(present, chunk, offset, length)
    THEN [ret |-> FALSE, err |-> "ASSERT", data |-> <<>>]
    ELSE IF ~opened \/ chunk \notin DOMAIN files
    THEN [ret |-> FALSE, err |-> "FILE", data |-> <<>>]
    ELSE _vmnetfs_safe_pread(files[chunk], length, offset)

pristine_write_asserts(chunk, length) ==
    /\ length <= ChunkSize
    /\ chunk * ChunkSize + length <= InitialSize

\* _vmnetfs_ll_pristine_write_chunk setting the presence bit whether or not
\* the chunk file was stored
_vmnetfs_ll_pristine_write_chunk_bit_first(files, present, data, chunk, length, stored) ==
    IF ~pristine_write_asserts(chunk, length)
    THEN [ret |-> FALSE, err |-> "ASSERT", files |-> files, present |-> present]
    ELSE IF ~stored
    THEN [ret |-> FALSE, err |-> "FILE", files |-> files,
          present |-> _vmnetfs_bit_set(present, chunk)]
    ELSE [ret |-> TRUE, err |-> "none",
          files |-> [c \in DOMAIN files \cup {chunk} |->
                        IF c = chunk THEN SubSeq(data, 1, length) ELSE files[c]],
          present |-> _vmnetfs_bit_set(present, chunk)]

\* stored: whether mkdir and g_file_set_contents succeeded
_vmnetfs_ll_pristine_write_chunk(files, present, data, chunk, length, stored) ==
    IF ~pristine_write_asserts(chunk, length)
    THEN [ret |-> FALSE, err |-> "ASSERT", files |-> files, present |-> present]
    ELSE IF ~stored
    THEN [ret |-> FALSE, err |-> "FILE", files |-> files, present |-> present]
    ELSE [ret |-> TRUE, err |-> "none",
          files |-> [c \in DOMAIN files \cup {chunk} |->
                        IF c = chunk THEN SubSeq(data, 1, length) ELSE files[c]],
          present |-> _vmnetfs_bit_set(present, chunk)]

\* Names in the cache directory are sequences of characters.
DigitChars == <<"0", "1", "2", "3", "4", "5", "6", "7", "8", "9">>
IsDigit(ch) == \E d \in 1..10 : DigitChars[d] = ch
DigitValue(ch) == (CHOOSE d \in 1..10 : DigitChars[d] = ch) - 1

\* "%" PRIu64 of printf
RECURSIVE DecFormat(_)
DecFormat(n) ==
    IF n < 10 THEN <<DigitChars[n + 1]>>
    ELSE DecFormat(n \div 10) \o <<DigitChars[(n % 10) + 1]>>

\* g_ascii_strtoull computes modulo 2^64.  The names checked here have at
\* most four digits, so the modulus shows only in a negated name, which lands
\* far above every chunk index with this modulus as with 2^64.
UintModulus == 2 ^ 30

RECURSIVE SkipSpace(_, _)
SkipSpace(str, i) ==
    IF i <= Len(str) /\ str[i] = " " THEN SkipSpace(str, i + 1) ELSE i

RECURSIVE ScanDigits(_, _, _)
ScanDigits(str, i, acc) ==
    IF i <= Len(str) /\ IsDigit(str[i])
    THEN ScanDigits(str, i + 1,
                    MIN(acc * 10 + DigitValue(str[i]), UintModulus - 1))
    ELSE [value |-> acc, end |-> i]

\* g_ascii_strtoull(str, &endptr, 10): leading blanks, an optional sign, then
\* digits; end is the index of the first character not consumed, 1 when
\* there is no digit at all
g_ascii_strtoull(str) ==
    LET i == SkipSpace(str, 1)
        signed == i <= Len(str) /\ str[i] \in {"-", "+"}
        j == IF signed THEN i + 1 ELSE i
        r == ScanDigits(str, j, 0)
    IN IF r.end = j
       THEN [value |-> 0, end |-> 1]
       ELSE [value |-> IF signed /\ str[i] = "-"
                       THEN (UintModulus - r.value) % UintModulus
                       ELSE r.value,
             end |-> r.end]

get_dir_num(chunk) == (chunk \div CHUNKS_PER_DIR) * CHUNKS_PER_DIR

get_dir(chunk) == DecFormat(get_dir_num(chunk))

\* the path of a chunk file under the cache directory: <<bucket, file>>
get_file(chunk) == <<get_dir(chunk), DecFormat(chunk)>>

\* What lies in the cache directory: one entry [dir, isdir, file] for every
\* file in a top-level directory, and one with isdir FALSE for a top-level
\* name that is no directory.  The chunk files come from the map of chunk
\* contents, the rest is foreign.
CacheDir(files, extra) ==
    {[dir |-> get_file(c)[1], isdir |-> TRUE, file |-> get_file(c)[2]]
        : c \in DOMAIN files} \cup extra

\* one name of a bucket directory, as set_present_from_directory tests it
bad_chunk_name(nchunks, dir_num, file) ==
    LET p == g_ascii_strtoull(file)
    IN \/ file = <<>>
       \/ p.end # Len(file) + 1
       \/ p.value > nchunks
       \/ dir_num # get_dir_num(p.value)

\* g_dir_read_name hands out the names in no particular order; the order
\* does not show in the result, since any bad name fails the whole scan and
\* the bits set before it are dropped with the map
RECURSIVE set_present_from_directory(_, _, _, _)
set_present_from_directory(nchunks, dir_num, names, present) ==
    IF names = {}
    THEN [ret |-> TRUE, err |-> "none", present |-> present]
    ELSE LET file == CHOOSE f \in names : TRUE
         IN IF bad_chunk_name(nchunks, dir_num, file)
            THEN [ret |-> FALSE, err |-> "INVALID_CACHE", present |-> present]
            ELSE set_present_from_directory(nchunks, dir_num, names \ {file},
                     _vmnetfs_bit_set(present, g_ascii_strtoull(file).value))

RECURSIVE pristine_init_dirs(_, _, _, _)
pristine_init_dirs(nchunks, entries, names, present) ==
    IF names = {}
    THEN [ret |-> TRUE, err |-> "none", present |-> present]
    ELSE LET name == CHOOSE n \in names : TRUE
             p == g_ascii_strtoull(name)
             isdir == \E e \in entries : e.dir = name /\ e.isdir
             r == set_present_from_directory(nchunks, p.value,
                      {e.file : e \in {x \in entries : x.dir = name}}, present)
         IN IF name # <<>> /\ p.end = Len(name) + 1 /\ isdir
            THEN IF ~r.ret
                 THEN [ret |-> FALSE, err |-> r.err,
                       present |-> _vmnetfs_bit_new]
                 ELSE pristine_init_dirs(nchunks, entries, names \ {name},
                                         r.present)
            ELSE pristine_init_dirs(nchunks, entries, names \ {name}, present)

\* _vmnetfs_ll_pristine_init over the entries of the cache directory
_vmnetfs_ll_pristine_init(nchunks, entries) ==
    pristine_init_dirs(nchunks, entries, {e.dir : e \in entries},
                       _vmnetfs_bit_new)

\* overlay store
_vmnetfs_ll_modified_read_chunk(file, chunk, offset, length) ==
    _vmnetfs_safe_pread(file, length, chunk * ChunkSize + offset)

_vmnetfs_ll_modified_write_chunk(file, modified, data, chunk, offset, length, written) ==
    LET w == _vmnetfs_safe_pwrite(file, data, length, chunk * ChunkSize + offset,
                                  written)
    IN [ret |-> w.ret, err |-> w.err, file |-> w.file,
        modified |-> IF w.ret THEN _vmnetfs_bit_set(modified, chunk)
                     ELSE modified]

----------------------------------------------------------------------------
(* State *)

VARIABLES
    image_size,     \* chunk_state.image_size
    chunk_locks,    \* chunk_state.chunk_locks: chunk -> [busy, waiters]
    accessed_map, present_map, modified_map,
    files,          \* pristine cache directory: chunk -> file contents
    overlay,        \* overlay file contents
    chunk_fetches, chunk_dirties,
    pc, op, loc,    \* per thread: position, arguments, locals of the call
    nops,           \* calls started so far
    aborted,        \* a g_assert failed and the process was aborted
    written,        \* history: position -> byte last stored there by a
                    \* write_chunk call's own data, -1 if none
    tr,             \* _vmnetfs_transport_fetch in progress: its locals, the
                    \* connection pool and what the network did so far
    fuse,           \* image_read / image_write in progress: the cursor,
                    \* the result and the image's I/O counters
    bs,             \* one bitmap with its stream group and a subscriber
    cache,          \* the life cycle of the image over its cache directory:
                    \* what else lies in the directory, mounted or not
    seg,            \* fetch_data walking a range of a segmented origin
    stat,           \* one statistics counter with its observer handles
    cpool,          \* a connection pool with the fetches running on it
    rd,             \* _vmnetfs_safe_pread in its loop
    cu,             \* an I/O cursor walking a range
    wc,             \* one transfer delivering its body to write_callback
    lk              \* the chunk lock table with its condition variables

\* the state of the operations that are checked on their own
unitVars == <<seg, stat, cpool, rd, cu, wc, lk>>

vars == <<image_size, chunk_locks, accessed_map, present_map, modified_map,
          files, overlay, chunk_fetches, chunk_dirties, pc, op, loc, nops,
          aborted, written, tr, fuse, bs, cache, unitVars>>

\* the state of the transport loop, of the FUSE handlers, of the bitmap
\* streams and of the mount, which the chunk operations below leave alone
auxVars == <<tr, fuse, bs, cache, unitVars>>

NoOp == [kind |-> "none", chunk |-> 0, offset |-> 0, length |-> 0,
         data |-> 0, size |-> 0]

NoLoc == [image_size |-> 0, length |-> 0, buf |-> <<>>, out |-> <<>>,
          ret |-> FALSE, err |-> "none", src |-> "none", fetched |-> FALSE,
          was |-> "none"]

\* the <<offset, length>> slices callers pass: the whole chunk, the chunk
\* from its second byte on, and its last byte
Slices == {<<0, ChunkSize>>, <<0, 1>>, <<1, ChunkSize - 1>>,
           <<ChunkSize - 1, 1>>}

\* the byte value callers write, which the origin never serves
WData == {MaxByte}

\* the bytes a write call passes: length bytes of its data value
OpData(o) == Fill(o.length, o.data)

RECURSIVE SetBits(_, _)
SetBits(map, S) ==
    IF S = {} THEN map
    ELSE LET b == CHOOSE x \in S : TRUE
         IN SetBits(_vmnetfs_bit_set(map, b), S \ {b})

\* no transport call, no FUSE call and no stream in progress
NoTr == [state |-> "idle"]
NoFuse == [state |-> "idle"]
NoBs == [state |-> "idle"]
\* the image is mounted for good over a directory of chunk files only
NoCache == [state |-> "mounted"]
NoSeg == [state |-> "idle"]
NoStat == [state |-> "idle"]
NoPool == [state |-> "idle"]
NoRd == [state |-> "idle"]
NoCu == [state |-> "idle"]
NoWc == [state |-> "idle"]
NoLk == [state |-> "idle"]

\* none of the operations checked on their own is running, but for the one
\* named
UnitIdleBut(v) ==
    /\ IF v = "seg" THEN TRUE ELSE seg = NoSeg
    /\ IF v = "stat" THEN TRUE ELSE stat = NoStat
    /\ IF v = "cpool" THEN TRUE ELSE cpool = NoPool
    /\ IF v = "rd" THEN TRUE ELSE rd = NoRd
    /\ IF v = "cu" THEN TRUE ELSE cu = NoCu
    /\ IF v = "wc" THEN TRUE ELSE wc = NoWc
    /\ IF v = "lk" THEN TRUE ELSE lk = NoLk

UnitIdle == UnitIdleBut("none")

\* _vmnetfs_io_init over a cache directory left by earlier runs: every
\* chunk file found there sets its presence bit
InitImage ==
    /\ image_size = InitialSize
    /\ chunk_locks = <<>>
    /\ accessed_map = _vmnetfs_bit_new
    /\ modified_map = _vmnetfs_bit_new
    /\ \E cached \in SUBSET ChunkIds :
          /\ files = [c \in cached |->
                         OriginRange(c * ChunkSize,
                                     MIN(InitialSize - c * ChunkSize, ChunkSize))]
          /\ present_map = SetBits(_vmnetfs_bit_new, cached)
    /\ overlay = <<>>
    /\ chunk_fetches = 0
    /\ chunk_dirties = 0
    /\ pc = [t \in Threads |-> "idle"]
    /\ op = [t \in Threads |-> NoOp]
    /\ loc = [t \in Threads |-> NoLoc]
    /\ nops = 0
    /\ aborted = FALSE
    /\ written = [p \in 0..(chunks * ChunkSize - 1) |-> -1]

Init ==
    /\ InitImage
    /\ tr = NoTr
    /\ fuse = NoFuse
    /\ bs = NoBs
    /\ cache = NoCache
    /\ UnitIdle

----------------------------------------------------------------------------
(* Chunk lock table *)

\* trylock_enter creating the entry of a chunk without marking it busy
trylock_enter_not_busy(locks, chunk) ==
    IF chunk \in DOMAIN locks
    THEN IF locks[chunk].busy
         THEN [locks |-> [locks EXCEPT ![chunk].waiters = @ + 1],
               state |-> "waiting"]
         ELSE [locks |-> [locks EXCEPT ![chunk].busy = TRUE],
               state |-> "acquired"]
    ELSE [locks |-> [c \in DOMAIN locks \cup {chunk} |->
                        IF c = chunk THEN [busy |-> FALSE, waiters |-> 0]
                        ELSE locks[c]],
          state |-> "acquired"]

\* trylock_enter waiting whenever any chunk of the table is busy
trylock_enter_any_busy(locks, chunk) ==
    IF \E d \in DOMAIN locks : locks[d].busy
    THEN [locks |-> [c \in DOMAIN locks \cup {chunk} |->
                        IF c # chunk THEN locks[c]
                        ELSE IF c \in DOMAIN locks
                        THEN [locks[c] EXCEPT !.waiters = @ + 1]
                        ELSE [busy |-> FALSE, waiters |-> 1]],
          state |-> "waiting"]
    ELSE [locks |-> [c \in DOMAIN locks \cup {chunk} |->
                        IF c = chunk THEN [busy |-> TRUE, waiters |-> 0]
                        ELSE locks[c]],
          state |-> "acquired"]

\* chunk_trylock up to its first wait: the lookup, and either the take or
\* the registration as a waiter
trylock_enter(locks, chunk) ==
    IF chunk \in DOMAIN locks
    THEN IF locks[chunk].busy
         THEN [locks |-> [locks EXCEPT ![chunk].waiters = @ + 1],
               state |-> "waiting"]
         ELSE [locks |-> [locks EXCEPT ![chunk].busy = TRUE],
               state |-> "acquired"]
    ELSE [locks |-> [c \in DOMAIN locks \cup {chunk} |->
                        IF c = chunk THEN [busy |-> TRUE, waiters |-> 0]
                        ELSE locks[c]],
          state |-> "acquired"]

\* trylock_wakeup leaving the interrupted waiter counted in the entry
trylock_wakeup_keeps_waiter(locks, chunk, interrupted) ==
    IF locks[chunk].busy
    THEN IF interrupted
         THEN [locks |-> locks, state |-> "failed"]
         ELSE [locks |-> locks, state |-> "waiting"]
    ELSE [locks |-> [locks EXCEPT ![chunk].busy = TRUE,
                                  ![chunk].waiters = @ - 1],
          state |-> "acquired"]

\* trylock_wakeup giving up on an interruption whether or not the lock is
\* still held
trylock_wakeup_gives_up_when_free(locks, chunk, interrupted) ==
    IF interrupted
    THEN [locks |-> [locks EXCEPT ![chunk].waiters = @ - 1],
          state |-> "failed"]
    ELSE IF locks[chunk].busy
    THEN [locks |-> locks, state |-> "waiting"]
    ELSE [locks |-> [locks EXCEPT ![chunk].busy = TRUE,
                                  ![chunk].waiters = @ - 1],
          state |-> "acquired"]

\* chunk_trylock after _vmnetfs_cond_wait returned (true = interrupted)
trylock_wakeup(locks, chunk, interrupted) ==
    IF locks[chunk].busy
    THEN IF interrupted
         THEN [locks |-> [locks EXCEPT ![chunk].waiters = @ - 1],
               state |-> "failed"]
         ELSE [locks |-> locks, state |-> "waiting"]
    ELSE [locks |-> [locks EXCEPT ![chunk].busy = TRUE,
                                  ![chunk].waiters = @ - 1],
          state |-> "acquired"]

\* chunk_unlock leaving the entry in the table when nobody waits for it
chunk_unlock_keeps_entry(locks, chunk) ==
    [locks EXCEPT ![chunk].busy = FALSE]

chunk_unlock(locks, chunk) ==
    IF locks[chunk].waiters > 0
    THEN [locks EXCEPT ![chunk].busy = FALSE]
    ELSE [c \in DOMAIN locks \ {chunk} |-> locks[c]]

----------------------------------------------------------------------------
(* read_chunk_unlocked, in two parts: up to and including the network      *)
(* fetch, and from the cache write on.  Each yields the set of results the  *)
(* environment (network, file system) allows.                               *)

ReadResult(stage, r, src, acc, fetches, length, buf) ==
    [stage |-> stage, ret |-> r.ret, err |-> r.err, out |-> r.data,
     src |-> src, accessed |-> acc, fetches |-> fetches, length |-> length,
     buf |-> buf]

\* read_chunk_unlocked serving a cached chunk from the pristine store even
\* when it is modified
read_chunk_unlocked_present_first(size, chunk, offset, length) ==
    LET c == constrain_io(size, chunk, offset, length)
        acc == _vmnetfs_bit_set(accessed_map, chunk)
        start == chunk * ChunkSize
        count == MIN(size - start, ChunkSize)
    IN IF ~c.ret
       THEN {ReadResult("done", [ret |-> FALSE, err |-> c.err, data |-> <<>>],
                        "none", accessed_map, chunk_fetches, length, <<>>)}
       ELSE IF _vmnetfs_bit_test(modified_map, chunk)
               /\ ~_vmnetfs_bit_test(present_map, chunk)
       THEN {ReadResult("done",
                        _vmnetfs_ll_modified_read_chunk(overlay, chunk, offset,
                                                        c.length),
                        "overlay", acc, chunk_fetches, c.length, <<>>)}
       ELSE IF ~_vmnetfs_bit_test(present_map, chunk)
       THEN {IF f.ret
             THEN ReadResult("fetched", [ret |-> TRUE, err |-> "none", data |-> <<>>],
                             "none", acc, chunk_fetches + 1, c.length, f.buf)
             ELSE ReadResult("done", [ret |-> FALSE, err |-> f.err, data |-> <<>>],
                             "none", acc, chunk_fetches + 1, c.length, <<>>)
               : f \in FetchTable[chunk][count]}
       ELSE {ReadResult("done",
                        _vmnetfs_ll_pristine_read_chunk(files, present_map, chunk,
                                                        offset, c.length, opened),
                        "pristine", acc, chunk_fetches, c.length, <<>>)
               : opened \in BOOLEAN}

read_chunk_unlocked(size, chunk, offset, length) ==
    LET c == constrain_io(size, chunk, offset, length)
        acc == _vmnetfs_bit_set(accessed_map, chunk)
        start == chunk * ChunkSize
        count == MIN(size - start, ChunkSize)
    IN IF ~c.ret
       THEN {ReadResult("done", [ret |-> FALSE, err |-> c.err, data |-> <<>>],
                        "none", accessed_map, chunk_fetches, length, <<>>)}
       ELSE IF _vmnetfs_bit_test(modified_map, chunk)
       THEN {ReadResult("done",
                        _vmnetfs_ll_modified_read_chunk(overlay, chunk, offset,
                                                        c.length),
                        "overlay", acc, chunk_fetches, c.length, <<>>)}
       ELSE IF ~_vmnetfs_bit_test(present_map, chunk)
       THEN {IF f.ret
             THEN ReadResult("fetched", [ret |-> TRUE, err |-> "none", data |-> <<>>],
                             "none", acc, chunk_fetches + 1, c.length, f.buf)
             ELSE ReadResult("done", [ret |-> FALSE, err |-> f.err, data |-> <<>>],
                             "none", acc, chunk_fetches + 1, c.length, <<>>)
               : f \in FetchTable[chunk][count]}
       ELSE {ReadResult("done",
                        _vmnetfs_ll_pristine_read_chunk(files, present_map, chunk,
                                                        offset, c.length, opened),
                        "pristine", acc, chunk_fetches, c.length, <<>>)
               : opened \in BOOLEAN}

\* the rest of read_chunk_unlocked once fetch_data has filled buf
read_chunk_fetched(buf, chunk, offset, length) ==
    UNION {LET w == _vmnetfs_ll_pristine_write_chunk(files, present_map, buf,
                                                     chunk, Len(buf), stored)
           IN IF ~w.ret
              THEN {[ret |-> FALSE, err |-> w.err, out |-> <<>>, src |-> "none",
                     files |-> w.files, present |-> w.present]}
              ELSE {LET r == _vmnetfs_ll_pristine_read_chunk(w.files, w.present,
                                         chunk, offset, length, opened)
                    IN [ret |-> r.ret, err |-> r.err, out |-> r.data,
                        src |-> "pristine", files |-> w.files,
                        present |-> w.present]
                      : opened \in BOOLEAN}
             : stored \in BOOLEAN}

\* which store holds chunk c now
ChunkState(c) ==
    IF _vmnetfs_bit_test(modified_map, c) THEN "modified"
    ELSE IF _vmnetfs_bit_test(present_map, c) THEN "present"
    ELSE "absent"

----------------------------------------------------------------------------
(* Actions *)

\* the result of a lock step with the image size stored whether or not the
\* lock was acquired
AfterTrylock_size_on_failure(t, r) ==
    /\ chunk_locks' = r.locks
    /\ pc' = [pc EXCEPT ![t] = CASE r.state = "acquired" -> "locked"
                                  [] r.state = "waiting" -> "waiting"
                                  [] OTHER -> "done"]
    /\ loc' = [loc EXCEPT ![t] =
                  CASE r.state = "acquired" ->
                         [NoLoc EXCEPT !.image_size = image_size]
                    [] r.state = "waiting" -> NoLoc
                    [] OTHER -> [NoLoc EXCEPT !.image_size = image_size,
                                              !.err = "INTERRUPTED"]]
    /\ UNCHANGED <<image_size, accessed_map, present_map, modified_map, files,
                   overlay, chunk_fetches, chunk_dirties, aborted, written>>

\* the result of a lock step with the failed call going to chunk_unlock
AfterTrylock_release_on_failure(t, r) ==
    /\ chunk_locks' = r.locks
    /\ pc' = [pc EXCEPT ![t] = CASE r.state = "acquired" -> "locked"
                                  [] r.state = "waiting" -> "waiting"
                                  [] OTHER -> "unlock"]
    /\ loc' = [loc EXCEPT ![t] =
                  CASE r.state = "acquired" ->
                         [NoLoc EXCEPT !.image_size = image_size]
                    [] r.state = "waiting" -> NoLoc
                    [] OTHER -> [NoLoc EXCEPT !.err = "INTERRUPTED"]]
    /\ UNCHANGED <<image_size, accessed_map, present_map, modified_map, files,
                   overlay, chunk_fetches, chunk_dirties, aborted, written>>

\* what a thread does with the result of a lock step
AfterTrylock(t, r) ==
    /\ chunk_locks' = r.locks
    /\ pc' = [pc EXCEPT ![t] = CASE r.state = "acquired" -> "locked"
                                  [] r.state = "waiting" -> "waiting"
                                  [] OTHER -> "done"]
    /\ loc' = [loc EXCEPT ![t] =
                  CASE r.state = "acquired" ->
                         [NoLoc EXCEPT !.image_size = image_size]
                    [] r.state = "waiting" -> NoLoc
                    [] OTHER -> [NoLoc EXCEPT !.err = "INTERRUPTED"]]
    /\ UNCHANGED <<image_size, accessed_map, present_map, modified_map, files,
                   overlay, chunk_fetches, chunk_dirties, aborted, written>>

\* a thread enters _vmnetfs_io_read_chunk or _vmnetfs_io_write_chunk on some
\* chunk and runs chunk_trylock up to its first wait; the slice and the data
\* it was called with are drawn where the call first uses them
StartIOWith(t, k, c) ==
    /\ ~aborted
    /\ pc[t] = "idle"
    /\ op' = [op EXCEPT ![t] = [NoOp EXCEPT !.kind = k, !.chunk = c]]
    /\ AfterTrylock(t, trylock_enter(chunk_locks, c))

StartIO(t) ==
    /\ UNCHANGED auxVars
    /\ nops < MaxOps
    /\ nops' = nops + 1
    /\ \E k \in {"read", "write"}, c \in ChunkIds : StartIOWith(t, k, c)

\* the wait ends because the condition was signalled and the lock is free
TrylockWake(t) ==
    /\ ~aborted
    /\ UNCHANGED auxVars
    /\ pc[t] = "waiting"
    /\ ~chunk_locks[op[t].chunk].busy
    /\ AfterTrylock(t, trylock_wakeup(chunk_locks, op[t].chunk, FALSE))
    /\ UNCHANGED <<op, nops>>

\* the wait ends because the request was interrupted
TrylockInterrupt(t) ==
    /\ ~aborted
    /\ UNCHANGED auxVars
    /\ pc[t] = "waiting"
    /\ AfterTrylock(t, trylock_wakeup(chunk_locks, op[t].chunk, TRUE))
    /\ UNCHANGED <<op, nops>>

Unlock(t) ==
    /\ ~aborted
    /\ UNCHANGED auxVars
    /\ pc[t] = "unlock"
    /\ IF op[t].chunk \in DOMAIN chunk_locks
       THEN /\ chunk_locks' = chunk_unlock(chunk_locks, op[t].chunk)
            /\ aborted' = aborted
       ELSE /\ chunk_locks' = chunk_locks
            /\ aborted' = TRUE
    /\ pc' = [pc EXCEPT ![t] = "idle"]
    /\ op' = [op EXCEPT ![t] = NoOp]
    /\ loc' = [loc EXCEPT ![t] = NoLoc]
    /\ UNCHANGED <<image_size, accessed_map, present_map, modified_map, files,
                   overlay, chunk_fetches, chunk_dirties, nops, written>>

\* _vmnetfs_io_read_chunk from the lock to the fetch or to the result
ReadChunkWith(t, s) ==
    /\ ~aborted
    /\ pc[t] = "locked"
    /\ op[t].kind = "read"
    /\ \E r \in read_chunk_unlocked(loc[t].image_size, op[t].chunk, s[1], s[2]) :
          /\ op' = [op EXCEPT ![t] = [@ EXCEPT !.offset = s[1], !.length = s[2]]]
          /\ accessed_map' = r.accessed
          /\ chunk_fetches' = r.fetches
          /\ aborted' = (r.err = "ASSERT")
          /\ pc' = [pc EXCEPT ![t] = IF r.stage = "fetched" THEN "fetched"
                                     ELSE "unlock"]
          /\ loc' = [loc EXCEPT ![t] =
                        [@ EXCEPT !.length = r.length, !.buf = r.buf,
                                  !.out = r.out, !.ret = r.ret, !.err = r.err,
                                  !.src = r.src,
                                  !.fetched = (r.stage = "fetched"),
                                  !.was = ChunkState(op[t].chunk)]]
    /\ UNCHANGED <<image_size, chunk_locks, present_map, modified_map, files,
                   overlay, chunk_dirties, nops, written>>

ReadChunk(t) ==
    /\ UNCHANGED auxVars
    /\ \E s \in Slices : ReadChunkWith(t, s)

\* the cache write and the read from the cache that follow a fetch, for a
\* read call and for the copy-on-write read of a write call
ReadFetched(t) ==
    /\ ~aborted
    /\ UNCHANGED auxVars
    /\ pc[t] = "fetched"
    /\ LET isread == op[t].kind = "read"
           offset == IF isread THEN op[t].offset ELSE 0
           length == IF isread THEN loc[t].length ELSE Len(loc[t].buf)
       IN \E r \in read_chunk_fetched(loc[t].buf, op[t].chunk, offset, length) :
            /\ files' = r.files
            /\ present_map' = r.present
            /\ aborted' = (r.err = "ASSERT")
            /\ pc' = [pc EXCEPT ![t] = IF isread \/ ~r.ret THEN "unlock"
                                       ELSE "cow_write"]
            /\ loc' = [loc EXCEPT ![t] =
                          [@ EXCEPT !.ret = r.ret, !.err = r.err, !.src = r.src,
                                    !.out = IF isread THEN r.out ELSE <<>>,
                                    !.buf = IF isread THEN <<>> ELSE r.out]]
    /\ UNCHANGED <<image_size, chunk_locks, accessed_map, modified_map, overlay,
                   chunk_fetches, chunk_dirties, op, nops, written>>

\* _vmnetfs_io_write_chunk from the lock to the end of the copy-on-write read
WriteChunkWith(t, s, d) ==
    /\ ~aborted
    /\ pc[t] = "locked"
    /\ op[t].kind = "write"
    /\ LET size == loc[t].image_size
           chunk == op[t].chunk
           c == constrain_io(size, chunk, s[1], s[2])
           count == MIN(size - chunk * ChunkSize, ChunkSize)
       IN
       /\ op' = [op EXCEPT ![t] = [@ EXCEPT !.offset = s[1], !.length = s[2],
                                            !.data = d]]
       /\ IF ~c.ret
          THEN /\ loc' = [loc EXCEPT ![t] = [@ EXCEPT !.ret = FALSE, !.err = c.err,
                                                       !.was = ChunkState(chunk)]]
               /\ pc' = [pc EXCEPT ![t] = "unlock"]
               /\ UNCHANGED <<accessed_map, chunk_fetches, chunk_dirties, aborted>>
          ELSE IF _vmnetfs_bit_test(modified_map, chunk)
          THEN /\ accessed_map' = _vmnetfs_bit_set(accessed_map, chunk)
               /\ loc' = [loc EXCEPT ![t] = [@ EXCEPT !.length = c.length,
                                                       !.was = "modified"]]
               /\ pc' = [pc EXCEPT ![t] = "apply"]
               /\ UNCHANGED <<chunk_fetches, chunk_dirties, aborted>>
          ELSE /\ chunk_dirties' = chunk_dirties + 1
               /\ \E r \in read_chunk_unlocked(size, chunk, 0, count) :
                     /\ accessed_map' = _vmnetfs_bit_set(r.accessed, chunk)
                     /\ chunk_fetches' = r.fetches
                     /\ aborted' = (r.err = "ASSERT")
                     /\ pc' = [pc EXCEPT ![t] =
                                  IF r.stage = "fetched" THEN "fetched"
                                  ELSE IF r.ret THEN "cow_write" ELSE "unlock"]
                     /\ loc' = [loc EXCEPT ![t] =
                                   [@ EXCEPT !.length = c.length,
                                             !.buf = IF r.stage = "fetched"
                                                     THEN r.buf ELSE r.out,
                                             !.ret = r.ret, !.err = r.err,
                                             !.fetched = (r.stage = "fetched"),
                                             !.was = ChunkState(chunk)]]
    /\ UNCHANGED <<image_size, chunk_locks, present_map, modified_map, files,
                   overlay, nops, written>>

WriteChunk(t) ==
    /\ UNCHANGED auxVars
    /\ \E s \in Slices, d \in WData : WriteChunkWith(t, s, d)

\* CowWrite without the test of the copy's result
CowWrite_unchecked(t) ==
    /\ ~aborted
    /\ UNCHANGED auxVars
    /\ pc[t] = "cow_write"
    /\ LET count == Len(loc[t].buf)
       IN \E n \in PartialLengths(count) \cup {count} :
            LET w == _vmnetfs_ll_modified_write_chunk(overlay, modified_map,
                          loc[t].buf, op[t].chunk, 0, count, n)
            IN /\ overlay' = w.file
               /\ modified_map' = w.modified
               /\ pc' = [pc EXCEPT ![t] = "apply"]
               /\ loc' = [loc EXCEPT ![t] = [@ EXCEPT !.ret = w.ret,
                                                       !.err = w.err,
                                                       !.buf = <<>>]]
    /\ UNCHANGED <<image_size, chunk_locks, accessed_map, present_map, files,
                   chunk_fetches, chunk_dirties, op, nops, aborted, written>>

\* the copy of the whole chunk into the overlay
CowWrite(t) ==
    /\ ~aborted
    /\ UNCHANGED auxVars
    /\ pc[t] = "cow_write"
    /\ LET count == Len(loc[t].buf)
       IN \E n \in PartialLengths(count) \cup {count} :
            LET w == _vmnetfs_ll_modified_write_chunk(overlay, modified_map,
                          loc[t].buf, op[t].chunk, 0, count, n)
            IN /\ overlay' = w.file
               /\ modified_map' = w.modified
               /\ pc' = [pc EXCEPT ![t] = IF w.ret THEN "apply" ELSE "unlock"]
               /\ loc' = [loc EXCEPT ![t] = [@ EXCEPT !.ret = w.ret,
                                                       !.err = w.err,
                                                       !.buf = <<>>]]
    /\ UNCHANGED <<image_size, chunk_locks, accessed_map, present_map, files,
                   chunk_fetches, chunk_dirties, op, nops, aborted, written>>

\* WriteData storing the caller's data at offset 0 of the chunk
WriteData_at_chunk_start(t) ==
    /\ ~aborted
    /\ UNCHANGED auxVars
    /\ pc[t] = "apply"
    /\ LET start == op[t].chunk * ChunkSize + op[t].offset
       IN \E n \in PartialLengths(loc[t].length) \cup {loc[t].length} :
            LET w == _vmnetfs_ll_modified_write_chunk(overlay, modified_map,
                          OpData(op[t]), op[t].chunk, 0,
                          loc[t].length, n)
            IN /\ overlay' = w.file
               /\ modified_map' = w.modified
               /\ loc' = [loc EXCEPT ![t] = [@ EXCEPT !.ret = w.ret,
                                                       !.err = w.err]]
               /\ written' = [p \in DOMAIN written |->
                                 IF p >= start /\ p < start + n
                                 THEN op[t].data ELSE written[p]]
    /\ pc' = [pc EXCEPT ![t] = "unlock"]
    /\ UNCHANGED <<image_size, chunk_locks, accessed_map, present_map, files,
                   chunk_fetches, chunk_dirties, op, nops, aborted>>

\* the write of the caller's data into the overlay
WriteData(t) ==
    /\ ~aborted
    /\ UNCHANGED auxVars
    /\ pc[t] = "apply"
    /\ LET start == op[t].chunk * ChunkSize + op[t].offset
       IN \E n \in PartialLengths(loc[t].length) \cup {loc[t].length} :
            LET w == _vmnetfs_ll_modified_write_chunk(overlay, modified_map,
                          OpData(op[t]), op[t].chunk, op[t].offset,
                          loc[t].length, n)
            IN /\ overlay' = w.file
               /\ modified_map' = w.modified
               /\ loc' = [loc EXCEPT ![t] = [@ EXCEPT !.ret = w.ret,
                                                       !.err = w.err]]
               /\ written' = [p \in DOMAIN written |->
                                 IF p >= start /\ p < start + n
                                 THEN op[t].data ELSE written[p]]
    /\ pc' = [pc EXCEPT ![t] = "unlock"]
    /\ UNCHANGED <<image_size, chunk_locks, accessed_map, present_map, files,
                   chunk_fetches, chunk_dirties, op, nops, aborted>>

\* chunks whose lock is held now
LockedChunks == {c \in DOMAIN chunk_locks : chunk_locks[c].busy}

\* _vmnetfs_io_set_image_size: under the table mutex, a reduction that would
\* cut into a locked chunk is refused as interrupted; the size never grows
_vmnetfs_io_set_image_size(size) ==
    IF \E c \in LockedChunks : size < MIN((c + 1) * ChunkSize, image_size)
    THEN [ret |-> FALSE, err |-> "INTERRUPTED", size |-> image_size]
    ELSE [ret |-> TRUE, err |-> "none", size |-> MIN(size, image_size)]

\* the sizes a truncate call can ask for now
TruncSizes == {n \in 0..image_size : n >= image_size - MaxCut}

\* image_truncate: the whole call is one critical section
Truncate(t) ==
    /\ ~aborted
    /\ UNCHANGED auxVars
    /\ pc[t] = "idle"
    /\ nops < MaxOps
    /\ nops' = nops + 1
    /\ \E n \in TruncSizes :
         LET r == _vmnetfs_io_set_image_size(n)
         IN /\ image_size' = r.size
            /\ op' = [op EXCEPT ![t] = [NoOp EXCEPT !.kind = "trunc", !.size = n]]
            /\ loc' = [loc EXCEPT ![t] = [NoLoc EXCEPT !.ret = r.ret,
                                                        !.err = r.err]]
    /\ pc' = [pc EXCEPT ![t] = "done"]
    /\ UNCHANGED <<chunk_locks, accessed_map, present_map, modified_map, files,
                   overlay, chunk_fetches, chunk_dirties, aborted, written>>

\* the call returns its result to the FUSE layer
Return(t) ==
    /\ ~aborted
    /\ UNCHANGED auxVars
    /\ pc[t] = "done"
    /\ pc' = [pc EXCEPT ![t] = "idle"]
    /\ op' = [op EXCEPT ![t] = NoOp]
    /\ loc' = [loc EXCEPT ![t] = NoLoc]
    /\ UNCHANGED <<image_size, chunk_locks, accessed_map, present_map,
                   modified_map, files, overlay, chunk_fetches, chunk_dirties,
                   nops, aborted, written>>

Next ==
    \E t \in Threads :
        \/ StartIO(t)
        \/ TrylockWake(t)
        \/ TrylockInterrupt(t)
        \/ ReadChunk(t)
        \/ ReadFetched(t)
        \/ WriteChunk(t)
        \/ CowWrite(t)
        \/ WriteData(t)
        \/ Unlock(t)
        \/ Truncate(t)
        \/ Return(t)

Spec == Init /\ [][Next]_vars

----------------------------------------------------------------------------
(* The transport call step by step: one read_chunk at a time on thread 1,   *)
(* with each iteration of the retry loop of _vmnetfs_transport_fetch a      *)
(* step of its own, over a pool of connections that keep their fields from  *)
(* one request to the next.                                                 *)

NoAttempt == Attempt(<<>>, 0, "none", FALSE, 0, 0)

\* the image's validators are those of cfg; no call made yet
TrInit(cfg) ==
    [state |-> "idle", cfg |-> cfg, pool |-> <<>>, i |-> 0, my_err |-> "none",
     hist |-> <<>>, atts |-> <<>>, start |-> 0, length |-> 0, ret |-> FALSE,
     err |-> "none", buf |-> <<>>, etag |-> NoEtag, calls |-> 0]

\* conn_get: the head of the pool, or a new zeroed connection
conn_get(pool) ==
    IF pool = <<>> THEN [etag |-> NoEtag, pool |-> <<>>]
    ELSE [etag |-> Head(pool), pool |-> Tail(pool)]

\* conn_put: the etag is freed and the connection goes to the head
conn_put(pool, etag) == <<NoEtag>> \o pool

\* transport_step going on to the next iteration after any failure
transport_step_retries_all(x, att) ==
    LET slept == x.my_err # "none"
        conn == conn_get(x.pool)
        r == fetch_with(x.cfg, conn.etag, att, x.start, x.length)
        y == [x EXCEPT !.pool = conn_put(conn.pool, r.etag),
                       !.atts = Append(@, att),
                       !.etag = r.etag,
                       !.hist = @ \o (IF slept THEN <<"sleep">> ELSE <<>>)
                                  \o <<IF r.ret THEN "ok" ELSE r.err>>]
    IN IF r.ret
       THEN [y EXCEPT !.state = "done", !.ret = TRUE, !.err = "none",
                      !.my_err = "none", !.buf = r.buf]
       ELSE [y EXCEPT !.i = @ + 1, !.my_err = r.err]

\* one iteration of the for loop with the network doing att, on the locals
\* and the pool in x
transport_step(x, att) ==
    LET slept == x.my_err # "none"
        conn == conn_get(x.pool)
        r == fetch_with(x.cfg, conn.etag, att, x.start, x.length)
        y == [x EXCEPT !.pool = conn_put(conn.pool, r.etag),
                       !.atts = Append(@, att),
                       !.etag = r.etag,
                       !.hist = @ \o (IF slept THEN <<"sleep">> ELSE <<>>)
                                  \o <<IF r.ret THEN "ok" ELSE r.err>>]
    IN IF r.ret
       THEN [y EXCEPT !.state = "done", !.ret = TRUE, !.err = "none",
                      !.my_err = "none", !.buf = r.buf]
       ELSE IF r.err # "NETWORK"
       THEN [y EXCEPT !.state = "broke", !.my_err = r.err]
       ELSE [y EXCEPT !.i = @ + 1, !.my_err = r.err]

\* thread 1 enters _vmnetfs_io_read_chunk
TStart ==
    /\ nops < MaxOps
    /\ nops' = nops + 1
    /\ UNCHANGED auxVars
    /\ \E c \in ChunkIds : StartIOWith(1, "read", c)

\* a read that needs no fetch
TReadChunk ==
    /\ UNCHANGED auxVars
    /\ \E s \in Slices : ReadChunkWith(1, s)
    /\ chunk_fetches' = chunk_fetches

\* read_chunk_unlocked up to the call of _vmnetfs_transport_fetch
TBeginFetch ==
    /\ ~aborted
    /\ pc[1] = "locked"
    /\ op[1].kind = "read"
    /\ \E s \in Slices :
        LET size == loc[1].image_size
            chunk == op[1].chunk
            c == constrain_io(size, chunk, s[1], s[2])
            start == chunk * ChunkSize
            count == MIN(size - start, ChunkSize)
        IN /\ c.ret
           /\ ~_vmnetfs_bit_test(modified_map, chunk)
           /\ ~_vmnetfs_bit_test(present_map, chunk)
           /\ count > 0
           /\ op' = [op EXCEPT ![1] = [@ EXCEPT !.offset = s[1], !.length = s[2]]]
           /\ accessed_map' = _vmnetfs_bit_set(accessed_map, chunk)
           /\ chunk_fetches' = chunk_fetches + 1
           /\ loc' = [loc EXCEPT ![1] = [@ EXCEPT !.length = c.length,
                                                   !.was = ChunkState(chunk)]]
           /\ tr' = [tr EXCEPT !.state = "loop", !.i = 0, !.my_err = "none",
                               !.hist = <<>>, !.atts = <<>>, !.start = start,
                               !.length = count, !.ret = FALSE, !.err = "none",
                               !.buf = <<>>, !.etag = NoEtag, !.calls = @ + 1]
    /\ pc' = [pc EXCEPT ![1] = "fetching"]
    /\ UNCHANGED <<image_size, chunk_locks, present_map, modified_map, files,
                   overlay, chunk_dirties, nops, aborted, written, fuse, bs, cache, unitVars>>

\* one iteration of the retry loop
TAttempt ==
    /\ tr.state = "loop"
    /\ tr.i < TRANSPORT_TRIES
    /\ \E att \in Attempts(tr.length) : tr' = transport_step(tr, att)
    /\ UNCHANGED <<image_size, chunk_locks, accessed_map, present_map,
                   modified_map, files, overlay, chunk_fetches, chunk_dirties,
                   pc, op, loc, nops, aborted, written, fuse, bs, cache, unitVars>>

\* the loop is left by its break or by its bound: the last error is the
\* call's error
TLoopExit ==
    /\ \/ tr.state = "broke"
       \/ tr.state = "loop" /\ tr.i >= TRANSPORT_TRIES
    /\ tr' = [tr EXCEPT !.state = "done", !.ret = FALSE, !.err = tr.my_err]
    /\ UNCHANGED <<image_size, chunk_locks, accessed_map, present_map,
                   modified_map, files, overlay, chunk_fetches, chunk_dirties,
                   pc, op, loc, nops, aborted, written, fuse, bs, cache, unitVars>>

\* fetch_data returns into read_chunk_unlocked
TFetchEnd ==
    /\ tr.state = "done"
    /\ pc[1] = "fetching"
    /\ tr' = [tr EXCEPT !.state = "idle"]
    /\ pc' = [pc EXCEPT ![1] = IF tr.ret THEN "fetched" ELSE "unlock"]
    /\ loc' = [loc EXCEPT ![1] =
                  [@ EXCEPT !.ret = tr.ret, !.err = tr.err,
                            !.buf = IF tr.ret THEN tr.buf ELSE <<>>,
                            !.fetched = tr.ret]]
    /\ UNCHANGED <<image_size, chunk_locks, accessed_map, present_map,
                   modified_map, files, overlay, chunk_fetches, chunk_dirties,
                   op, nops, aborted, written, fuse, bs, cache, unitVars>>

TransportInit ==
    /\ InitImage
    /\ \E cfg \in Validators : tr = TrInit(cfg)
    /\ fuse = NoFuse
    /\ bs = NoBs
    /\ cache = NoCache
    /\ UnitIdle

TransportNext ==
    \/ TStart
    \/ TReadChunk
    \/ TBeginFetch
    \/ TAttempt
    \/ TLoopExit
    \/ TFetchEnd
    \/ ReadFetched(1)
    \/ Unlock(1)
    \/ Truncate(1)
    \/ Return(1)

TransportSpec == TransportInit /\ [][TransportNext]_vars

\* every step of a call is taken in the end: curl_easy_perform returns,
\* sleep returns
TransportLive == TransportSpec /\ WF_vars(TransportNext)

----------------------------------------------------------------------------
(* A bitmap and one subscriber of its stream group.  Every thread sets     *)
(* bits; the subscriber opens a stream.  What runs under map->lock is one  *)
(* step; the write to the stream group that follows the unlock in          *)
(* _vmnetfs_bit_set is a step of its own.                                  *)

Bits == 0..MaxBit

\* populate_stream ending its scan at the first bit that is not set
RECURSIVE populate_stream_stops_at_gap(_, _)
populate_stream_stops_at_gap(map, b) ==
    IF b >= map.allocated_bytes * 8 \/ b \notin map.bits THEN <<>>
    ELSE <<b>> \o populate_stream_stops_at_gap(map, b + 1)

\* populate_stream: the set bits in ascending order, from bit b on
RECURSIVE populate_stream(_, _)
populate_stream(map, b) ==
    IF b >= map.allocated_bytes * 8 THEN <<>>
    ELSE (IF b \in map.bits THEN <<b>> ELSE <<>>)
         \o populate_stream(map, b + 1)

\* _vmnetfs_stream_group_write: the line goes to every stream of the group
_vmnetfs_stream_group_write(x, bit) ==
    IF x.registered THEN [x EXCEPT !.strm = Append(@, bit)] ELSE x

BsInit(map, order) ==
    [state |-> "open", map |-> map, order |-> order, registered |-> FALSE,
     populated |-> FALSE, strm |-> <<>>,
     set |-> [t \in Threads |-> [pc |-> "idle", bit |-> 0, is_new |-> FALSE]],
     nsets |-> 0, returned |-> {}]

\* _vmnetfs_bit_set from the lock to the unlock; returned collects the bits
\* of the calls that have returned
BitSet(t) ==
    /\ bs.set[t].pc = "idle"
    /\ bs.nsets < MaxOps
    /\ \E bit \in Bits :
          LET is_new == ~_vmnetfs_bit_test(bs.map, bit)
          IN bs' = [bs EXCEPT !.map = _vmnetfs_bit_set(@, bit),
                              !.nsets = @ + 1,
                              !.set[t] = [pc |-> IF is_new THEN "publish"
                                                 ELSE "idle",
                                          bit |-> bit, is_new |-> is_new],
                              !.returned = IF is_new THEN @ ELSE @ \cup {bit}]
    /\ UNCHANGED <<image_size, chunk_locks, accessed_map, present_map,
                   modified_map, files, overlay, chunk_fetches, chunk_dirties,
                   pc, op, loc, nops, aborted, written, tr, fuse, cache, unitVars>>

\* _vmnetfs_bit_set after the unlock: the new bit goes to the stream group
BitPublish(t) ==
    /\ bs.set[t].pc = "publish"
    /\ bs' = [_vmnetfs_stream_group_write(bs, bs.set[t].bit)
                 EXCEPT !.set[t].pc = "idle",
                        !.returned = @ \cup {bs.set[t].bit}]
    /\ UNCHANGED <<image_size, chunk_locks, accessed_map, present_map,
                   modified_map, files, overlay, chunk_fetches, chunk_dirties,
                   pc, op, loc, nops, aborted, written, tr, fuse, cache, unitVars>>

\* _vmnetfs_stream_new puts the new stream into the group
SubRegister ==
    /\ bs.state = "open"
    /\ ~bs.registered
    /\ bs.order = "register_first" \/ bs.populated
    /\ bs' = [bs EXCEPT !.registered = TRUE]
    /\ UNCHANGED <<image_size, chunk_locks, accessed_map, present_map,
                   modified_map, files, overlay, chunk_fetches, chunk_dirties,
                   pc, op, loc, nops, aborted, written, tr, fuse, cache, unitVars>>

\* _vmnetfs_stream_new calls the group's populate function, populate_stream
SubPopulate ==
    /\ bs.state = "open"
    /\ ~bs.populated
    /\ bs.order = "populate_first" \/ bs.registered
    /\ bs' = [bs EXCEPT !.populated = TRUE,
                        !.strm = @ \o populate_stream(bs.map, 0)]
    /\ UNCHANGED <<image_size, chunk_locks, accessed_map, present_map,
                   modified_map, files, overlay, chunk_fetches, chunk_dirties,
                   pc, op, loc, nops, aborted, written, tr, fuse, cache, unitVars>>

\* a bitmap with some bits set already; the order of the two halves of
\* _vmnetfs_stream_new is either
BitmapInit ==
    /\ InitImage
    /\ tr = NoTr
    /\ fuse = NoFuse
    /\ cache = NoCache
    /\ UnitIdle
    /\ \E S \in SUBSET Bits, order \in {"register_first", "populate_first"} :
          bs = BsInit(SetBits(_vmnetfs_bit_new, S), order)

BitmapNext ==
    \/ \E t \in Threads : BitSet(t) \/ BitPublish(t)
    \/ SubRegister
    \/ SubPopulate

BitmapSpec == BitmapInit /\ [][BitmapNext]_vars

----------------------------------------------------------------------------
(* image_read and image_write: one FUSE call at a time on thread 1, walking *)
(* its range chunk by chunk with the cursor; every chunk call runs the      *)
(* steps of _vmnetfs_io_read_chunk or _vmnetfs_io_write_chunk above.        *)

\* _vmnetfs_cursor_start
_vmnetfs_cursor_start(start, count) ==
    [start |-> start, count |-> count, io_offset |-> 0, chunk |-> 0,
     offset |-> 0, length |-> 0]

\* _vmnetfs_cursor_chunk: the fields of the next chunk I/O after the last
\* one completed count bytes, and whether there is one
_vmnetfs_cursor_chunk(cur, count) ==
    LET io_offset == cur.io_offset + count
        position == cur.start + io_offset
        chunk == position \div ChunkSize
        offset == position - chunk * ChunkSize
    IN [cur |-> [cur EXCEPT !.io_offset = io_offset, !.chunk = chunk,
                            !.offset = offset,
                            !.length = MIN(ChunkSize - offset,
                                           cur.count - io_offset)],
        ret |-> io_offset < cur.count]

\* _vmnetfs_cursor_chunk with the length of a slice not cut to what is left
\* of the range
cursor_chunk_sized_whole_chunk(cur, count, chunk_size) ==
    LET io_offset == cur.io_offset + count
        position == cur.start + io_offset
        chunk == position \div chunk_size
        offset == position - chunk * chunk_size
    IN [cur |-> [cur EXCEPT !.io_offset = io_offset, !.chunk = chunk,
                            !.offset = offset,
                            !.length = chunk_size - offset],
        ret |-> io_offset < cur.count]

\* _vmnetfs_cursor_chunk on an image of any chunk size
cursor_chunk_sized(cur, count, chunk_size) ==
    LET io_offset == cur.io_offset + count
        position == cur.start + io_offset
        chunk == position \div chunk_size
        offset == position - chunk * chunk_size
    IN [cur |-> [cur EXCEPT !.io_offset = io_offset, !.chunk = chunk,
                            !.offset = offset,
                            !.length = MIN(chunk_size - offset,
                                           cur.count - io_offset)],
        ret |-> io_offset < cur.count]

\* the int a handler returns: a byte count, or minus an errno
Returned(value, errno) == [value |-> value, errno |-> errno]

\* (int) n ?: -errno
CountOr(n, errno) ==
    IF n # 0 THEN Returned(n, "none") ELSE Returned(0, errno)

\* moved: the bytes the chunk calls of the current handler call transferred;
\* bytes0, errors0, mark: the byte counters, io_errors and the written bytes
\* when the handler was called
FuseInit ==
    [state |-> "idle", kind |-> "none", cur |-> _vmnetfs_cursor_start(0, 0),
     size |-> 0, mark |-> <<>>, errors0 |-> 0, err |-> "none",
     result |-> Returned(0, "none"), moved |-> 0, bytes0 |-> 0,
     io_errors |-> 0, bytes_read |-> 0, bytes_written |-> 0]

\* the value the handlers assign to their uint64_t read / written: the bool
\* that _vmnetfs_io_read_chunk and _vmnetfs_io_write_chunk return
ChunkCount(ret) == IF ret THEN 1 ELSE 0

\* the loop body of image_read / image_write after the chunk call returned
\* ret and err, and the loop condition that follows
after_chunk(f0, ret, err) ==
    LET n == ChunkCount(ret)
        f == [f0 EXCEPT !.err = err]
        next == _vmnetfs_cursor_chunk(f.cur, n)
    IN IF err # "none"
       THEN IF err = "INTERRUPTED"
            THEN [f EXCEPT !.state = "returned",
                           !.result = CountOr(f.cur.io_offset + n, "EINTR")]
            ELSE IF err = "EOF" /\ f.kind = "read"
            THEN [f EXCEPT !.state = "returned",
                           !.result = Returned(f.cur.io_offset + n, "none")]
            ELSE [f EXCEPT !.state = "returned",
                           !.io_errors = @ + 1,
                           !.result = CountOr(f.cur.io_offset + n, "EIO")]
       ELSE LET g == IF f.kind = "read"
                     THEN [f EXCEPT !.bytes_read = @ + f.cur.length]
                     ELSE [f EXCEPT !.bytes_written = @ + f.cur.length]
            IN IF next.ret
               THEN [g EXCEPT !.cur = next.cur, !.state = "chunk"]
               ELSE [g EXCEPT !.cur = next.cur, !.state = "returned",
                              !.result = Returned(next.cur.io_offset, "none")]

\* the FUSE layer calls image_read or image_write
FCall ==
    /\ ~aborted
    /\ fuse.state = "idle"
    /\ pc[1] = "idle"
    /\ nops < MaxOps
    /\ nops' = nops + 1
    /\ \E kind \in {"read", "write"}, start \in 0..InitialSize,
          count \in 1..MaxCount :
          LET first == _vmnetfs_cursor_chunk(
                           _vmnetfs_cursor_start(start, count), 0)
          IN fuse' = [fuse EXCEPT !.state = "chunk", !.kind = kind,
                                  !.cur = first.cur, !.size = image_size,
                                  !.mark = written, !.errors0 = fuse.io_errors,
                                  !.err = "none", !.moved = 0,
                                  !.bytes0 = fuse.bytes_read
                                                + fuse.bytes_written,
                                  !.result = Returned(0, "none")]
    /\ UNCHANGED <<image_size, chunk_locks, accessed_map, present_map,
                   modified_map, files, overlay, chunk_fetches, chunk_dirties,
                   pc, op, loc, aborted, written, tr, bs, cache, unitVars>>

\* the handler calls into the I/O engine for the cursor's chunk
FChunkCall ==
    /\ fuse.state = "chunk"
    /\ fuse' = [fuse EXCEPT !.state = "in_chunk"]
    /\ StartIOWith(1, fuse.kind, fuse.cur.chunk)
    /\ UNCHANGED <<nops, tr, bs, cache, unitVars>>

FReadChunk ==
    /\ UNCHANGED auxVars
    /\ ReadChunkWith(1, <<fuse.cur.offset, fuse.cur.length>>)

FWriteChunk ==
    /\ UNCHANGED auxVars
    /\ \E d \in WData :
          WriteChunkWith(1, <<fuse.cur.offset, fuse.cur.length>>, d)

\* chunk_unlock, the return into the handler, and the handler's loop up to
\* its next chunk call or its return
FChunkReturn ==
    /\ ~aborted
    /\ fuse.state = "in_chunk"
    /\ pc[1] = "unlock"
    /\ chunk_locks' = chunk_unlock(chunk_locks, op[1].chunk)
    /\ fuse' = [after_chunk(fuse, loc[1].ret, loc[1].err) EXCEPT
                   !.moved = @ + IF loc[1].ret THEN loc[1].length ELSE 0]
    /\ pc' = [pc EXCEPT ![1] = "idle"]
    /\ op' = [op EXCEPT ![1] = NoOp]
    /\ loc' = [loc EXCEPT ![1] = NoLoc]
    /\ UNCHANGED <<image_size, accessed_map, present_map, modified_map, files,
                   overlay, chunk_fetches, chunk_dirties, nops, aborted,
                   written, tr, bs, cache, unitVars>>

\* the handler's return value goes back to the FUSE layer
FReturn ==
    /\ fuse.state = "returned"
    /\ fuse' = [fuse EXCEPT !.state = "idle"]
    /\ UNCHANGED <<image_size, chunk_locks, accessed_map, present_map,
                   modified_map, files, overlay, chunk_fetches, chunk_dirties,
                   pc, op, loc, nops, aborted, written, tr, bs, cache, unitVars>>

\* image_truncate between two calls
FTruncate ==
    /\ fuse.state = "idle"
    /\ Truncate(1)

FuseSpecInit ==
    /\ InitImage
    /\ tr = NoTr
    /\ fuse = FuseInit
    /\ bs = NoBs
    /\ cache = NoCache
    /\ UnitIdle

FuseNext ==
    \/ FCall
    \/ FChunkCall
    \/ FReadChunk
    \/ FWriteChunk
    \/ ReadFetched(1)
    \/ CowWrite(1)
    \/ WriteData(1)
    \/ FChunkReturn
    \/ FReturn
    \/ FTruncate
    \/ Return(1)

FuseSpec == FuseSpecInit /\ [][FuseNext]_vars

----------------------------------------------------------------------------
(* fetch_data on a segmented origin: the loop of requests *)

\* the URL index of an unsegmented origin, which has none
NoIndex == -1

\* the request fetch_data makes next without the clamp at the segment's end
segment_request_unclamped(segment_size, start, count) ==
    IF segment_size # 0
    THEN [index |-> start \div segment_size, offset |-> start % segment_size,
          length |-> count]
    ELSE [index |-> NoIndex, offset |-> start, length |-> count]

\* the URL, cur_start and cur_count of the loop body of fetch_data
segment_request(segment_size, start, count) ==
    IF segment_size # 0
    THEN [index |-> start \div segment_size, offset |-> start % segment_size,
          length |-> MIN(segment_size - (start % segment_size), count)]
    ELSE [index |-> NoIndex, offset |-> start, length |-> count]

\* reqs: the requests made so far, each with the absolute position it was
\* made for and whether it succeeded
SegInit ==
    /\ InitImage
    /\ tr = NoTr
    /\ fuse = NoFuse
    /\ bs = NoBs
    /\ cache = NoCache
    /\ UnitIdleBut("seg")
    /\ \E segment_size \in 0..MaxSeg, start \in 0..MaxFetch, count \in 0..MaxFetch :
          seg = [state |-> "loop", segment_size |-> segment_size,
                 start0 |-> start, count0 |-> count,
                 start |-> start, count |-> count, reqs |-> <<>>, ret |-> FALSE]

\* one turn of the loop: a request, and the return on its failure
SegRequest ==
    /\ seg.state = "loop"
    /\ seg.count > 0
    /\ \E ok \in BOOLEAN :
          LET r == segment_request(seg.segment_size, seg.start, seg.count)
              done == Append(seg.reqs, [index |-> r.index, offset |-> r.offset,
                                        length |-> r.length, abs |-> seg.start,
                                        ok |-> ok])
          IN seg' = IF ok
                    THEN [seg EXCEPT !.reqs = done,
                                     !.start = @ + r.length,
                                     !.count = @ - r.length]
                    ELSE [seg EXCEPT !.reqs = done, !.state = "returned",
                                     !.ret = FALSE]
    /\ UNCHANGED <<image_size, chunk_locks, accessed_map, present_map,
                   modified_map, files, overlay, chunk_fetches, chunk_dirties,
                   pc, op, loc, nops, aborted, written, tr, fuse, bs, cache,
                   stat, cpool, rd, cu, wc, lk>>

\* the loop ends with nothing left to fetch
SegReturn ==
    /\ seg.state = "loop"
    /\ seg.count = 0
    /\ seg' = [seg EXCEPT !.state = "returned", !.ret = TRUE]
    /\ UNCHANGED <<image_size, chunk_locks, accessed_map, present_map,
                   modified_map, files, overlay, chunk_fetches, chunk_dirties,
                   pc, op, loc, nops, aborted, written, tr, fuse, bs, cache,
                   stat, cpool, rd, cu, wc, lk>>

SegNext == SegRequest \/ SegReturn

SegSpec == SegInit /\ [][SegNext]_vars

----------------------------------------------------------------------------
(* A statistics counter and its observer handles (stats.c).  Every operation
   runs under stat->lock, so each is one step. *)

\* hdl->ph of a handle without a poll handle
NoPh == 0

\* _vmnetfs_finish_poll: a poll handle is notified if asked to and then
\* destroyed; no poll handle, nothing to do
_vmnetfs_finish_poll(polls, ph, notify) ==
    IF ph = NoPh THEN polls
    ELSE [polls EXCEPT ![ph] = [notified |-> @.notified + (IF notify THEN 1 ELSE 0),
                                destroyed |-> TRUE]]

\* _vmnetfs_stat_new; handles and polls hold the handles and poll handles
\* created so far, born the number of increments a handle was created after
StatNew ==
    [state |-> "live", u64 |-> 0, unchanged_handles |-> <<>>,
     handles |-> <<>>, polls |-> <<>>, incs |-> 0]

\* stat_handle_new, called by _vmnetfs_u64_stat_get when a handle is asked for
stat_handle_new(st) ==
    [st EXCEPT !.handles = Append(@, [changed |-> FALSE, ph |-> NoPh,
                                      freed |-> FALSE, born |-> st.incs]),
               !.unchanged_handles = <<Len(st.handles) + 1>> \o @]

_vmnetfs_u64_stat_get(st) == stat_handle_new(st)

RECURSIVE change_handles(_, _)
change_handles(st, list) ==
    IF list = <<>> THEN st
    ELSE LET hdl == Head(list)
         IN change_handles(
                [st EXCEPT !.handles[hdl].changed = TRUE,
                           !.handles[hdl].ph = NoPh,
                           !.polls = _vmnetfs_finish_poll(@, st.handles[hdl].ph,
                                                          TRUE)],
                Tail(list))

\* change_stat marking the first handle of the list only
change_stat_head_only(st) ==
    [change_handles(st, IF st.unchanged_handles = <<>> THEN <<>>
                        ELSE <<Head(st.unchanged_handles)>>)
        EXCEPT !.unchanged_handles = <<>>]

change_stat(st) ==
    [change_handles(st, st.unchanged_handles) EXCEPT !.unchanged_handles = <<>>]

_vmnetfs_u64_stat_increment(st, val) ==
    change_stat([st EXCEPT !.u64 = @ + val, !.incs = @ + 1])

_vmnetfs_stat_handle_is_changed(st, hdl) == st.handles[hdl].changed

\* ph is a poll handle just made by the FUSE layer
_vmnetfs_stat_handle_set_poll(st, hdl, ph) ==
    IF st.handles[hdl].changed
    THEN [st EXCEPT !.polls = _vmnetfs_finish_poll(@, ph, TRUE)]
    ELSE [st EXCEPT !.polls = _vmnetfs_finish_poll(@, st.handles[hdl].ph, FALSE),
                    !.handles[hdl].ph = ph]

_vmnetfs_stat_handle_free(st, hdl) ==
    LET rest == SelectSeq(st.unchanged_handles, LAMBDA h : h # hdl)
        gone == [st EXCEPT !.handles[hdl].freed = TRUE]
    IN IF ~st.handles[hdl].changed
       THEN [gone EXCEPT !.unchanged_handles = rest,
                         !.polls = _vmnetfs_finish_poll(@, st.handles[hdl].ph,
                                                        FALSE),
                         !.handles[hdl].ph = NoPh]
       ELSE gone

LiveHandles == {h \in 1..Len(stat.handles) : ~stat.handles[h].freed}

StatInit ==
    /\ InitImage
    /\ tr = NoTr
    /\ fuse = NoFuse
    /\ bs = NoBs
    /\ cache = NoCache
    /\ UnitIdleBut("stat")
    /\ stat = StatNew

StatFrame ==
    UNCHANGED <<image_size, chunk_locks, accessed_map, present_map,
                modified_map, files, overlay, chunk_fetches, chunk_dirties,
                pc, op, loc, nops, aborted, written, tr, fuse, bs, cache,
                seg, cpool, rd, cu, wc, lk>>

\* a pseudo-file is opened: the value is read and a handle obtained
SGet ==
    /\ Len(stat.handles) < MaxHandles
    /\ stat' = _vmnetfs_u64_stat_get(stat)
    /\ StatFrame

SIncrement ==
    /\ stat.incs < MaxIncr
    /\ stat' = _vmnetfs_u64_stat_increment(stat, 1)
    /\ StatFrame

\* the pseudo-file is polled with a new poll handle
SSetPoll ==
    /\ Len(stat.polls) < MaxPolls
    /\ \E hdl \in LiveHandles :
          LET ph == Len(stat.polls) + 1
              made == [stat EXCEPT !.polls = Append(@, [notified |-> 0,
                                                        destroyed |-> FALSE])]
          IN stat' = _vmnetfs_stat_handle_set_poll(made, hdl, ph)
    /\ StatFrame

\* the pseudo-file is released
SFree ==
    /\ \E hdl \in LiveHandles : stat' = _vmnetfs_stat_handle_free(stat, hdl)
    /\ StatFrame

StatNext == SGet \/ SIncrement \/ SSetPoll \/ SFree

StatSpec == StatInit /\ [][StatNext]_vars

----------------------------------------------------------------------------
(* Concurrent fetches on one connection pool (transport.c): every thread
   runs fetch, step by step; the pool's queue is touched under cpool->lock *)

NoConn == 0

g_queue_pop_head(queue) ==
    IF queue = <<>> THEN [head |-> NoConn, queue |-> <<>>]
    ELSE [head |-> Head(queue), queue |-> Tail(queue)]

g_queue_push_head(queue, x) == <<x>> \o queue

\* conns: cpool->conns; conn: the fields of every connection made so far;
\* th: where each thread is in fetch, with its conn, its curl code and *err
PoolNew ==
    [state |-> "live", conns |-> <<>>, conn |-> <<>>,
     th |-> [t \in Threads |-> [pc |-> "idle", conn |-> NoConn,
                                code |-> "none", err |-> "none"]],
     fetches |-> 0]

\* what curl_easy_perform reports
CurlCodes == {"CURLE_OK", "CURLE_RECV_ERROR", "CURLE_ABORTED_BY_CALLBACK",
              "CURLE_OTHER"}

\* the part of fetch after curl_easy_perform that forgets to take the error
\* out of the connection
after_perform_keeps_err(c, code) ==
    IF c.err # "none"
    THEN [conn |-> c, err |-> c.err]
    ELSE [conn |-> c,
          err |-> CASE code = "CURLE_OK" -> "none"
                    [] code = "CURLE_RECV_ERROR" -> "NETWORK"
                    [] code = "CURLE_ABORTED_BY_CALLBACK" -> "INTERRUPTED"
                    [] OTHER -> "FATAL"]

\* fetch after curl_easy_perform: the error the callbacks left in the
\* connection is moved to the caller, else the curl code decides
after_perform(c, code) ==
    IF c.err # "none"
    THEN [conn |-> [c EXCEPT !.err = "none"], err |-> c.err]
    ELSE [conn |-> c,
          err |-> CASE code = "CURLE_OK" -> "none"
                    [] code = "CURLE_RECV_ERROR" -> "NETWORK"
                    [] code = "CURLE_ABORTED_BY_CALLBACK" -> "INTERRUPTED"
                    [] OTHER -> "FATAL"]

PoolInit ==
    /\ InitImage
    /\ tr = NoTr
    /\ fuse = NoFuse
    /\ bs = NoBs
    /\ cache = NoCache
    /\ UnitIdleBut("cpool")
    /\ cpool = PoolNew

PoolFrame ==
    UNCHANGED <<image_size, chunk_locks, accessed_map, present_map,
                modified_map, files, overlay, chunk_fetches, chunk_dirties,
                pc, op, loc, nops, aborted, written, tr, fuse, bs, cache,
                seg, stat, rd, cu, wc, lk>>

\* conn_get: the head of the queue, or a new connection from conn_new, which
\* can fail and end the fetch
PConnGet(t) ==
    /\ cpool.state = "live"
    /\ cpool.th[t].pc = "idle"
    /\ cpool.fetches < MaxFetches
    /\ LET p == g_queue_pop_head(cpool.conns)
           started == [cpool EXCEPT !.fetches = @ + 1, !.conns = p.queue,
                                    !.th[t].code = "none", !.th[t].err = "none"]
       IN IF p.head # NoConn
          THEN cpool' = [started EXCEPT !.th[t].pc = "setup",
                                        !.th[t].conn = p.head]
          ELSE \/ cpool' = [started EXCEPT
                               !.conn = Append(@, [etag |-> NoEtag,
                                                   err |-> "none"]),
                               !.th[t].pc = "setup",
                               !.th[t].conn = Len(cpool.conn) + 1]
               \/ cpool' = [started EXCEPT !.th[t].err = "FATAL"]
    /\ PoolFrame

\* the curl_easy_setopt calls, any of which can fail, the fields of the
\* request, and the assertion
PSetup(t) ==
    /\ cpool.state = "live"
    /\ cpool.th[t].pc = "setup"
    /\ \/ cpool' = [cpool EXCEPT !.th[t].pc = "put", !.th[t].err = "FATAL"]
       \/ cpool' = IF cpool.conn[cpool.th[t].conn].err # "none"
                   THEN [cpool EXCEPT !.state = "aborted"]
                   ELSE [cpool EXCEPT !.th[t].pc = "perform"]
    /\ PoolFrame

\* curl_easy_perform: the callbacks capture an ETag or not, leave an error
\* in the connection or not, and curl reports a code
PPerform(t) ==
    /\ cpool.state = "live"
    /\ cpool.th[t].pc = "perform"
    /\ \E e \in {NoEtag, "v1"}, err \in {"none", "FATAL"}, code \in CurlCodes :
          cpool' = [cpool EXCEPT !.conn[cpool.th[t].conn] =
                                        [etag |-> e, err |-> err],
                                    !.th[t].code = code,
                                    !.th[t].pc = "after"]
    /\ PoolFrame

PAfter(t) ==
    /\ cpool.state = "live"
    /\ cpool.th[t].pc = "after"
    /\ LET c == cpool.th[t].conn
           r == after_perform(cpool.conn[c], cpool.th[t].code)
       IN cpool' = [cpool EXCEPT !.conn[c] = r.conn, !.th[t].err = r.err,
                                 !.th[t].pc = "put"]
    /\ PoolFrame

\* conn_put and the return of fetch
PConnPut(t) ==
    /\ cpool.state = "live"
    /\ cpool.th[t].pc = "put"
    /\ LET c == cpool.th[t].conn
       IN cpool' = [cpool EXCEPT !.conn[c].etag = NoEtag,
                                 !.conns = g_queue_push_head(@, c),
                                 !.th[t].conn = NoConn,
                                 !.th[t].pc = "idle"]
    /\ PoolFrame

PoolNext ==
    \E t \in Threads :
        \/ PConnGet(t)
        \/ PSetup(t)
        \/ PPerform(t)
        \/ PAfter(t)
        \/ PConnPut(t)

PoolSpec == PoolInit /\ [][PoolNext]_vars

----------------------------------------------------------------------------
(* The chunk lock table with the condition variable of each entry: a
   waiter sleeps in _vmnetfs_cond_wait until it is signalled or its request
   is interrupted, and then runs on when the scheduler lets it *)

LockThreads == 1..NumLockThreads

LockNew ==
    [state |-> "live", locks |-> <<>>,
     th |-> [t \in LockThreads |-> [pc |-> "idle", chunk |-> 0]],
     ops |-> 0]

\* the threads asleep on the condition variable of chunk c
Asleep(l, c) == {t \in LockThreads : l.th[t].pc = "asleep" /\ l.th[t].chunk = c}

\* _vmnetfs_cond_signal: the condition variables that can result, one of
\* the sleepers woken if there is any
_vmnetfs_cond_signal(l, c) ==
    IF Asleep(l, c) = {} THEN {l}
    ELSE {[l EXCEPT !.th[t].pc = "woken"] : t \in Asleep(l, c)}

LockInit ==
    /\ InitImage
    /\ tr = NoTr
    /\ fuse = NoFuse
    /\ bs = NoBs
    /\ cache = NoCache
    /\ UnitIdleBut("lk")
    /\ lk = LockNew

LockFrame ==
    UNCHANGED <<image_size, chunk_locks, accessed_map, present_map,
                modified_map, files, overlay, chunk_fetches, chunk_dirties,
                pc, op, loc, nops, aborted, written, tr, fuse, bs, cache,
                seg, stat, cpool, rd, cu, wc>>

\* what a thread does with the result of a step of chunk_trylock
AfterLockStep(l, t, r) ==
    [l EXCEPT !.locks = r.locks,
              !.th[t].pc = CASE r.state = "acquired" -> "holding"
                             [] r.state = "waiting" -> "asleep"
                             [] OTHER -> "idle"]

\* chunk_trylock up to its first wait
LEnter(t) ==
    /\ lk.state = "live"
    /\ lk.th[t].pc = "idle"
    /\ lk.ops < MaxLockOps
    /\ \E c \in ChunkIds :
          lk' = AfterLockStep([lk EXCEPT !.ops = @ + 1, !.th[t].chunk = c], t,
                              trylock_enter(lk.locks, c))
    /\ LockFrame

\* the request of a sleeper, or of a sleeper that was just signalled, is
\* interrupted
LInterrupt(t) ==
    /\ lk.state = "live"
    /\ lk.th[t].pc \in {"asleep", "woken"}
    /\ lk' = [lk EXCEPT !.th[t].pc = "interrupted"]
    /\ LockFrame

\* _vmnetfs_cond_wait returns and chunk_trylock goes on under the mutex
LResume(t) ==
    /\ lk.state = "live"
    /\ lk.th[t].pc \in {"woken", "interrupted"}
    /\ lk' = AfterLockStep(lk, t,
                 trylock_wakeup(lk.locks, lk.th[t].chunk,
                                lk.th[t].pc = "interrupted"))
    /\ LockFrame

\* chunk_unlock without the signal
LUnlock_no_signal(t) ==
    /\ lk.state = "live"
    /\ lk.th[t].pc = "holding"
    /\ LET c == lk.th[t].chunk
       IN IF c \notin DOMAIN lk.locks
          THEN lk' = [lk EXCEPT !.state = "aborted"]
          ELSE lk' = [lk EXCEPT !.locks = chunk_unlock(lk.locks, c),
                                !.th[t].pc = "idle"]
    /\ LockFrame

\* chunk_unlock: the assertion, the release and the signal to the waiters
LUnlock(t) ==
    /\ lk.state = "live"
    /\ lk.th[t].pc = "holding"
    /\ LET c == lk.th[t].chunk
       IN IF c \notin DOMAIN lk.locks
          THEN lk' = [lk EXCEPT !.state = "aborted"]
          ELSE LET released == [lk EXCEPT !.locks = chunk_unlock(lk.locks, c),
                                          !.th[t].pc = "idle"]
               IN IF lk.locks[c].waiters > 0
                  THEN lk' \in _vmnetfs_cond_signal(released, c)
                  ELSE lk' = released
    /\ LockFrame

LockNext ==
    \E t \in LockThreads :
        \/ LEnter(t)
        \/ LInterrupt(t)
        \/ LResume(t)
        \/ LUnlock(t)

LockSpec == LockInit /\ [][LockNext]_vars

\* every holder calls chunk_unlock in the end, and a thread that can run
\* on from its wait is scheduled in the end
LockLive ==
    /\ LockSpec
    /\ \A t \in LockThreads : WF_vars(LUnlock(t)) /\ WF_vars(LResume(t))

----------------------------------------------------------------------------
(* _vmnetfs_safe_pread in its loop (util.c): buf, offset and count are
   64-bit unsigned in the code and are computed modulo UintModulus here; a
   buffer position of UintModulus - 1 is the byte before the buffer *)

\* the value a signed result has in the unsigned cur
AsUnsigned(n) == n % UintModulus

\* an offset that is negative as an off_t
NegativeOffset(offset) == offset >= UintModulus \div 2

\* what pread(fd, buf, count, offset) can return on a file of len bytes:
\* -1 for an offset it refuses and for a system error, 0 at the end of the
\* file, else the number of bytes it delivered, which may be short
pread(len, count, offset, mayfail) ==
    IF NegativeOffset(offset) THEN {-1}
    ELSE (IF mayfail THEN {-1} ELSE {})
         \cup (IF offset >= len THEN {0}
               ELSE 1..MIN(count, len - offset))

\* the loop test and the loop body for one result of pread
safe_pread_body(r, n) ==
    LET cur == AsUnsigned(n)
    IN IF cur > 0
       THEN [r EXCEPT !.cur = cur,
                      !.pos = (@ + cur) % UintModulus,
                      !.offset = (@ + cur) % UintModulus,
                      !.count = (@ - cur) % UintModulus]
       ELSE [r EXCEPT !.cur = cur]

\* what _vmnetfs_safe_pread returns once its loop has ended
safe_pread_exit(count, cur) ==
    IF count = 0 THEN [ret |-> TRUE, err |-> "none"]
    ELSE IF cur = 0 THEN [ret |-> FALSE, err |-> "PREMATURE_EOF"]
    ELSE [ret |-> FALSE, err |-> "FILE"]

\* the bytes of the file that n bytes read at offset put at buffer position
\* pos, as <<buffer position, file position>>
Delivered(pos, offset, n) ==
    IF n <= 0 THEN {}
    ELSE {<<(pos + i) % UintModulus, offset + i>> : i \in 0..(n - 1)}

RdInit ==
    /\ InitImage
    /\ tr = NoTr
    /\ fuse = NoFuse
    /\ bs = NoBs
    /\ cache = NoCache
    /\ UnitIdleBut("rd")
    /\ \E len \in 0..MaxFileLen, count \in 0..MaxFileLen,
          offset \in 0..MaxFileLen :
          rd = [state |-> "loop", len |-> len, count0 |-> count,
                offset0 |-> offset, pos |-> 0, offset |-> offset,
                count |-> count, cur |-> 0, last |-> 0, got |-> {},
                preads |-> 0, errors |-> 0, ret |-> FALSE, err |-> "none"]

RdFrame ==
    UNCHANGED <<image_size, chunk_locks, accessed_map, present_map,
                modified_map, files, overlay, chunk_fetches, chunk_dirties,
                pc, op, loc, nops, aborted, written, tr, fuse, bs, cache,
                seg, stat, cpool, cu, wc, lk>>

\* one turn of the loop: the test of count, the call of pread, the test of
\* its result and the body, or the return when the test fails
RdPread ==
    /\ rd.state = "loop"
    /\ rd.count > 0
    /\ rd.preads < MaxPreads
    /\ \E n \in pread(rd.len, rd.count, rd.offset,
                      rd.errors < MaxPreadErrors) :
          LET called == [rd EXCEPT
                            !.last = n,
                            !.preads = @ + 1,
                            !.errors = IF n = -1 /\ ~NegativeOffset(rd.offset)
                                       THEN @ + 1 ELSE @,
                            !.got = @ \cup Delivered(rd.pos, rd.offset, n)]
              r == safe_pread_body(called, n)
              x == safe_pread_exit(r.count, r.cur)
          IN rd' = IF r.cur > 0 THEN r
                   ELSE [r EXCEPT !.state = "returned", !.ret = x.ret,
                                  !.err = x.err]
    /\ RdFrame

\* the loop ends because nothing is left to read
RdReturn ==
    /\ rd.state = "loop"
    /\ rd.count = 0
    /\ LET x == safe_pread_exit(rd.count, rd.cur)
       IN rd' = [rd EXCEPT !.state = "returned", !.ret = x.ret, !.err = x.err]
    /\ RdFrame

RdNext == RdPread \/ RdReturn

RdSpec == RdInit /\ [][RdNext]_vars

----------------------------------------------------------------------------
(* The loop of image_read and image_write over a cursor, for any chunk
   size, with chunk calls that report any progress from 1 to the length
   of the slice, or fail *)

CuInit ==
    /\ InitImage
    /\ tr = NoTr
    /\ fuse = NoFuse
    /\ bs = NoBs
    /\ cache = NoCache
    /\ UnitIdleBut("cu")
    /\ \E chunk_size \in 1..MaxChunkSize, start \in 0..MaxStart,
          count \in 1..MaxCount :
          LET first == cursor_chunk_sized(_vmnetfs_cursor_start(start, count),
                                          0, chunk_size)
          IN cu = [state |-> IF first.ret THEN "chunk" ELSE "returned",
                   chunk_size |-> chunk_size, cur |-> first.cur,
                   slices |-> <<>>, failed |-> FALSE,
                   result |-> first.cur.io_offset]

CuFrame ==
    UNCHANGED <<image_size, chunk_locks, accessed_map, present_map,
                modified_map, files, overlay, chunk_fetches, chunk_dirties,
                pc, op, loc, nops, aborted, written, tr, fuse, bs, cache,
                seg, stat, cpool, rd, wc, lk>>

\* the slice the cursor holds, with the progress its chunk call reported
SliceOf(cur, p) ==
    [chunk |-> cur.chunk, offset |-> cur.offset, length |-> cur.length,
     position |-> cur.start + cur.io_offset, progress |-> p]

\* the chunk call of the slice reports progress and the loop goes to its
\* next slice or returns
CuChunk ==
    /\ cu.state = "chunk"
    /\ \E p \in 1..cu.cur.length :
          LET next == cursor_chunk_sized(cu.cur, p, cu.chunk_size)
          IN cu' = [cu EXCEPT !.slices = Append(@, SliceOf(cu.cur, p)),
                              !.cur = next.cur,
                              !.state = IF next.ret THEN "chunk"
                                        ELSE "returned",
                              !.result = next.cur.io_offset]
    /\ CuFrame

\* the chunk call fails with nothing transferred and the handler returns
CuFail ==
    /\ cu.state = "chunk"
    /\ cu' = [cu EXCEPT !.slices = Append(@, SliceOf(cu.cur, 0)),
                        !.failed = TRUE, !.state = "returned",
                        !.result = cu.cur.io_offset]
    /\ CuFrame

CuNext == CuChunk \/ CuFail

CuSpec == CuInit /\ [][CuNext]_vars

----------------------------------------------------------------------------
(* One transfer of fetch with the calls of write_callback that curl makes
   for its body (transport.c); the counts are uint64_t in the code and are
   computed modulo UintModulus here *)

\* write_callback copying all it is handed
write_callback_once_unclamped(conn, n) ==
    IF conn.err # "none" THEN [conn |-> conn, ret |-> 0]
    ELSE IF conn.offset = 0
            /\ check_validators(conn.cfg, conn.etag, conn.filetime) # "none"
    THEN [conn |-> [conn EXCEPT !.err = "FATAL", !.checks = @ + 1],
          ret |-> 0]
    ELSE [conn |-> [conn EXCEPT
                       !.checks = IF conn.offset = 0 THEN @ + 1 ELSE @,
                       !.wrote = @ \cup {conn.offset + i : i \in 0..(n - 1)},
                       !.offset = (@ + n) % UintModulus],
          ret |-> n]

\* write_callback for one call with n = size * nmemb bytes of body
write_callback_once(conn, n) ==
    LET count == MIN(n, (conn.length - conn.offset) % UintModulus)
    IN IF conn.err # "none" THEN [conn |-> conn, ret |-> 0]
       ELSE IF conn.offset = 0
               /\ check_validators(conn.cfg, conn.etag, conn.filetime) # "none"
       THEN [conn |-> [conn EXCEPT !.err = "FATAL", !.checks = @ + 1],
             ret |-> 0]
       ELSE [conn |-> [conn EXCEPT
                          !.checks = IF conn.offset = 0 THEN @ + 1 ELSE @,
                          !.wrote = @ \cup {conn.offset + i :
                                               i \in 0..(count - 1)},
                          !.offset = (@ + count) % UintModulus],
             ret |-> count]

\* the connection as fetch sets it up for a range of length bytes, with the
\* validators of the image and what the response headers carried
WcInit ==
    /\ InitImage
    /\ tr = NoTr
    /\ fuse = NoFuse
    /\ bs = NoBs
    /\ cache = NoCache
    /\ UnitIdleBut("wc")
    /\ \E length \in 0..MaxLength, cfg \in Validators,
          etag \in {NoEtag, "v1", "v2"}, filetime \in {0, 1} :
          wc = [state |-> "transfer",
                conn |-> [length |-> length, offset |-> 0, err |-> "none",
                          cfg |-> cfg, etag |-> etag, filetime |-> filetime,
                          checks |-> 0, wrote |-> {}],
                calls |-> 0, handed |-> 0, before |-> 0, copied |-> 0]

WcFrame ==
    UNCHANGED <<image_size, chunk_locks, accessed_map, present_map,
                modified_map, files, overlay, chunk_fetches, chunk_dirties,
                pc, op, loc, nops, aborted, written, tr, fuse, bs, cache,
                seg, stat, cpool, rd, cu, lk>>

\* curl hands the next bytes of the body to write_callback, and aborts the
\* transfer when the callback takes fewer than it was handed
WcWrite ==
    /\ wc.state = "transfer"
    /\ wc.calls < MaxCalls
    /\ \E n \in 0..MaxDeliver :
          LET r == write_callback_once(wc.conn, n)
          IN wc' = [wc EXCEPT !.conn = r.conn,
                              !.calls = @ + 1,
                              !.handed = n,
                              !.before = wc.conn.offset,
                              !.copied = r.ret,
                              !.state = IF r.ret = n THEN "transfer"
                                        ELSE "aborted"]
    /\ WcFrame

\* the body ends and curl_easy_perform returns
WcEnd ==
    /\ wc.state = "transfer"
    /\ wc' = [wc EXCEPT !.state = "done"]
    /\ WcFrame

WcNext == WcWrite \/ WcEnd

WcSpec == WcInit /\ [][WcNext]_vars

----------------------------------------------------------------------------
(* The image initialised, used, destroyed and initialised again over one
   cache directory: _vmnetfs_io_init, chunk reads, _vmnetfs_io_destroy *)

Name(dir, file) == [dir |-> dir, isdir |-> TRUE, file |-> file]

\* entries of the cache directory that no chunk write put there
ExtraEntries ==
    {Name(<<"0">>, DecFormat(chunks)),
     Name(<<"0">>, DecFormat(chunks + 1)),
     Name(<<"0">>, <<"0", "1">>),
     Name(<<"0">>, <<"1", "x">>),
     Name(<<"0">>, <<"x">>),
     Name(<<"0">>, <<"-", "0">>),
     Name(<<"0">>, <<"-", "1">>),
     Name(DecFormat(CHUNKS_PER_DIR), <<"1">>),
     Name(DecFormat(CHUNKS_PER_DIR), DecFormat(CHUNKS_PER_DIR)),
     Name(<<"x">>, <<"z">>),
     [dir |-> <<"7">>, isdir |-> FALSE, file |-> <<>>]}

\* initial: the chunks with a file before the first initialisation;
\* before: the presence bits at the last destroy; at_mount: the presence
\* bits the last initialisation found
CacheInit ==
    /\ image_size = InitialSize
    /\ chunk_locks = <<>>
    /\ accessed_map = _vmnetfs_bit_new
    /\ modified_map = _vmnetfs_bit_new
    /\ present_map = _vmnetfs_bit_new
    /\ \E cached \in SUBSET ChunkIds, extra \in SUBSET ExtraEntries :
          /\ Cardinality(extra) <= MaxExtra
          /\ files = [c \in cached |->
                         OriginRange(c * ChunkSize,
                                     MIN(InitialSize - c * ChunkSize, ChunkSize))]
          /\ cache = [state |-> "unmounted", extra |-> extra, mounts |-> 0,
                      initial |-> cached, before |-> {}, at_mount |-> {},
                      err |-> "none"]
    /\ overlay = <<>>
    /\ chunk_fetches = 0
    /\ chunk_dirties = 0
    /\ pc = [t \in Threads |-> "idle"]
    /\ op = [t \in Threads |-> NoOp]
    /\ loc = [t \in Threads |-> NoLoc]
    /\ nops = 0
    /\ aborted = FALSE
    /\ written = [p \in 0..(chunks * ChunkSize - 1) |-> -1]
    /\ tr = NoTr
    /\ fuse = NoFuse
    /\ bs = NoBs
    /\ UnitIdle

\* _vmnetfs_io_init: the presence map is built from the directory, the
\* other maps, the overlay and the lock table start empty
CMount ==
    /\ cache.state = "unmounted"
    /\ cache.mounts < MaxMounts
    /\ LET r == _vmnetfs_ll_pristine_init(chunks, CacheDir(files, cache.extra))
       IN /\ present_map' = r.present
          /\ cache' = [cache EXCEPT !.state = IF r.ret THEN "mounted"
                                               ELSE "failed",
                                    !.err = r.err, !.mounts = @ + 1,
                                    !.at_mount = BitsOf(r.present)]
    /\ image_size' = InitialSize
    /\ chunk_locks' = <<>>
    /\ accessed_map' = _vmnetfs_bit_new
    /\ modified_map' = _vmnetfs_bit_new
    /\ overlay' = <<>>
    /\ chunk_fetches' = 0
    /\ chunk_dirties' = 0
    /\ UNCHANGED <<files, pc, op, loc, nops, aborted, written, tr, fuse, bs, unitVars>>

\* a chunk read of the mounted image
CStart ==
    /\ cache.state = "mounted"
    /\ UNCHANGED auxVars
    /\ nops < MaxOps
    /\ nops' = nops + 1
    /\ \E c \in ChunkIds : StartIOWith(1, "read", c)

\* _vmnetfs_io_destroy once no request is in flight: the maps are freed, the
\* chunk files stay
CDestroy ==
    /\ cache.state = "mounted"
    /\ ~aborted
    /\ \A t \in Threads : pc[t] = "idle"
    /\ cache' = [cache EXCEPT !.state = "unmounted",
                              !.before = BitsOf(present_map)]
    /\ present_map' = _vmnetfs_bit_new
    /\ accessed_map' = _vmnetfs_bit_new
    /\ UNCHANGED <<image_size, chunk_locks, modified_map, files, overlay,
                   chunk_fetches, chunk_dirties, pc, op, loc, nops, aborted,
                   written, tr, fuse, bs, unitVars>>

CacheNext ==
    \/ CMount
    \/ CStart
    \/ ReadChunk(1)
    \/ ReadFetched(1)
    \/ Unlock(1)
    \/ CDestroy

CacheSpec == CacheInit /\ [][CacheNext]_vars

----------------------------------------------------------------------------
(* Vocabulary of the properties *)

\* thread t is between a successful chunk_trylock and its chunk_unlock
Holding(t) ==
    pc[t] \in {"locked", "fetching", "fetched", "cow_write", "apply", "unlock"}

\* thread t has the result of a read call in hand, lock still held
ReadDone(t) == pc[t] = "unlock" /\ op[t].kind = "read"
WriteDone(t) == pc[t] = "unlock" /\ op[t].kind = "write"

OpStart(t) == op[t].chunk * ChunkSize + op[t].offset

\* the byte the image holds at position p: the one last written there, or
\* the origin's
Latest(p) == IF written[p] # -1 THEN written[p] ELSE OriginByte(p)

TypeOK ==
    /\ image_size \in 0..InitialSize
    /\ nops \in 0..MaxOps
    /\ \A t \in Threads : pc[t] \in {"idle", "done", "waiting", "locked",
                                      "fetched", "cow_write", "apply", "unlock"}

----------------------------------------------------------------------------
\* no two threads are between chunk_trylock and chunk_unlock of one chunk
MutualExclusion ==
    \A t1, t2 \in Threads :
        (t1 # t2 /\ Holding(t1) /\ Holding(t2)) => op[t1].chunk # op[t2].chunk

\* a successful read returns at every position the byte the image holds there
ReadsLatest ==
    \A t \in Threads :
        (ReadDone(t) /\ loc[t].ret) =>
            loc[t].out = [i \in 1..Len(loc[t].out) |-> Latest(OpStart(t) + i - 1)]

\* C1: at most one thread at a time is between a successful chunk_trylock(C)
\* and its chunk_unlock(C), and every successful read returns, byte for
\* byte, the latest write to that position or the origin's byte if there
\* was none.
C1_SerializedPerChunk == MutualExclusion /\ ReadsLatest

----------------------------------------------------------------------------
\* C2: a successful read is served from the overlay if modified[C] is set,
\* else from the pristine store with present[C] set, after a fetch and a
\* cache write if the chunk was absent; never from the pristine store while
\* modified[C] is set and never from a store while both bits are clear.
C2_ReadSource ==
    \A t \in Threads :
        (ReadDone(t) /\ loc[t].ret) =>
            LET c == op[t].chunk
            IN /\ loc[t].src # "none"
               /\ _vmnetfs_bit_test(modified_map, c) =>
                     /\ loc[t].src = "overlay"
                     /\ loc[t].out = PReadBytes(overlay, loc[t].length, OpStart(t))
               /\ ~_vmnetfs_bit_test(modified_map, c) =>
                     /\ loc[t].src = "pristine"
                     /\ _vmnetfs_bit_test(present_map, c)
                     /\ c \in DOMAIN files
                     /\ loc[t].out = PReadBytes(files[c], loc[t].length,
                                                op[t].offset)
               /\ loc[t].fetched <=> (loc[t].was = "absent")

\* a read served from the overlay of a chunk that the pristine store holds too
C2_Witness ==
    \E t \in Threads :
        /\ ReadDone(t) /\ loc[t].ret
        /\ loc[t].src = "overlay"
        /\ _vmnetfs_bit_test(present_map, op[t].chunk)

----------------------------------------------------------------------------
----------------------------------------------------------------------------
\* the positions of chunk c that lie inside an image of the given size
ChunkRange(c, size) == {p \in 0..(InitialSize - 1) :
                          p >= c * ChunkSize /\ p < MIN((c + 1) * ChunkSize, size)}

\* the byte the image held at p before thread t's write to a clean chunk
Before(t, p) ==
    IF loc[t].was = "present" /\ op[t].chunk \in DOMAIN files
                              /\ p - op[t].chunk * ChunkSize < Len(files[op[t].chunk])
    THEN files[op[t].chunk][p - op[t].chunk * ChunkSize + 1]
    ELSE OriginByte(p)

\* C4: after a successful write to a chunk that was not modified, every
\* byte of the chunk inside the image and outside [offset, offset+length)
\* is in the overlay with the value it had before the write (the pristine
\* store's byte, or the origin's byte if the chunk was absent).
C4_PartialWriteFrame ==
    \A t \in Threads :
        (WriteDone(t) /\ loc[t].ret /\ loc[t].was \in {"absent", "present"}) =>
            \A p \in ChunkRange(op[t].chunk, loc[t].image_size) :
                (p < OpStart(t) \/ p >= OpStart(t) + loc[t].length) =>
                    /\ p < Len(overlay)
                    /\ overlay[p + 1] = Before(t, p)

----------------------------------------------------------------------------
\* the overlay holds all of chunk c that lies inside the image: the byte
\* last written where a write stored one, the pristine copy's elsewhere
OverlayComplete(c) ==
    \A p \in ChunkRange(c, image_size) :
        /\ p < Len(overlay)
        /\ c \in DOMAIN files
        /\ p - c * ChunkSize < Len(files[c])
        /\ overlay[p + 1] = IF written[p] # -1 THEN written[p]
                            ELSE files[c][p - c * ChunkSize + 1]

ModifiedComplete ==
    \A c \in ChunkIds : _vmnetfs_bit_test(modified_map, c) => OverlayComplete(c)

\* a write call of t fails before its copy-on-write copy is in the overlay
CowFails(t) ==
    /\ op'[t].kind = "write"
    /\ pc[t] \in {"locked", "fetched", "cow_write"}
    /\ pc'[t] = "unlock"
    /\ ~loc'[t].ret

\* a write call of t fails in the update that follows the copy
UpdateFails(t) ==
    /\ pc[t] = "apply"
    /\ pc'[t] = "unlock"
    /\ ~loc'[t].ret

\* C5 as stated: modified[C] set implies a complete copy of C in the
\* overlay, and a failed write leaves modified[C] as it was before the call.
C5_FailedWriteKeepsModified ==
    /\ ModifiedComplete
    /\ \A t \in Threads :
          (WriteDone(t) /\ ~loc[t].ret) =>
              (_vmnetfs_bit_test(modified_map, op[t].chunk)
                  <=> (loc[t].was = "modified"))

\* C5 amended: modified[C] set implies a complete copy of C in the overlay;
\* a write that fails before or in its copy-on-write copy leaves the
\* modified bitmap as it was; a write that fails in the update after the
\* copy leaves modified[C] set.
C5_ModifiedImpliesCopy ==
    /\ []ModifiedComplete
    /\ [][\A t \in Threads :
            /\ CowFails(t) => modified_map' = modified_map
            /\ UpdateFails(t) =>
                  _vmnetfs_bit_test(modified_map', op[t].chunk)]_vars

\* a write to a clean chunk failed after its copy: the chunk is modified now
C5_Witness ==
    \E t \in Threads :
        /\ WriteDone(t) /\ ~loc[t].ret
        /\ loc[t].was \in {"absent", "present"}
        /\ _vmnetfs_bit_test(modified_map, op[t].chunk)

----------------------------------------------------------------------------
\* C6: present[C] set implies the pristine store has a file for C that
\* holds the chunk's whole payload inside the image, as fetched from the
\* origin.
C6_PresentComplete ==
    \A c \in ChunkIds :
        _vmnetfs_bit_test(present_map, c) =>
            /\ c \in DOMAIN files
            /\ \A p \in ChunkRange(c, image_size) :
                  /\ p - c * ChunkSize < Len(files[c])
                  /\ files[c][p - c * ChunkSize + 1] = OriginByte(p)

----------------------------------------------------------------------------
\* C7: every file of the pristine store holds the origin's bytes of its
\* chunk and nothing else; no byte of it is data a write call was given.
C7_PristineIsOrigin ==
    \A c \in DOMAIN files :
        files[c] = OriginRange(c * ChunkSize, Len(files[c]))

----------------------------------------------------------------------------
\* what the lock held by t pins the image size to
Pinned(t) == MIN((op[t].chunk + 1) * ChunkSize, loc[t].image_size)

SizePinned == \A t \in Threads : Holding(t) => image_size >= Pinned(t)

\* t runs image_truncate in this step
TruncateStep(t) == pc[t] = "idle" /\ pc'[t] = "done" /\ op'[t].kind = "trunc"

\* C8: while a thread holds the lock of chunk C the image size is not
\* below (C+1)*chunk_size, or the size the holder sampled if that is
\* smaller; a truncate that would cut into a locked chunk is refused as
\* INTERRUPTED and leaves the size as it was.
C8_TruncateSparesLocked ==
    /\ []SizePinned
    /\ [][\A t \in Threads :
            (TruncateStep(t) /\ \E h \in Threads :
                                  Holding(h) /\ op'[t].size < Pinned(h)) =>
                /\ image_size' = image_size
                /\ ~loc'[t].ret
                /\ loc'[t].err = "INTERRUPTED"]_vars

\* a truncate was refused while another thread held the lock of the chunk
\* it would have cut
C8_Witness ==
    \E t, h \in Threads :
        /\ pc[t] = "done" /\ op[t].kind = "trunc"
        /\ loc[t].err = "INTERRUPTED"
        /\ Holding(h) /\ op[t].size < Pinned(h)

----------------------------------------------------------------------------
\* t's read call goes from the lock to read_chunk_unlocked in this step
ReadStep(t) == pc[t] = "locked" /\ op[t].kind = "read" /\ pc'[t] # "locked"

\* C9: a read that starts at or after the size sampled with the lock fails
\* with EOF, transfers nothing, fetches nothing, leaves the three bitmaps,
\* the stores and chunk_fetches as they were, and then releases the lock.
C9_ReadPastEOF ==
    [][\A t \in Threads :
         /\ (ReadStep(t) /\ op[t].chunk * ChunkSize + op'[t].offset
                               >= loc[t].image_size) =>
               /\ pc'[t] = "unlock"
               /\ ~loc'[t].ret
               /\ loc'[t].err = "EOF"
               /\ loc'[t].out = <<>>
               /\ ~loc'[t].fetched
               /\ UNCHANGED <<accessed_map, present_map, modified_map,
                              chunk_fetches, files, overlay>>
         /\ (ReadDone(t) /\ loc[t].err = "EOF" /\ pc'[t] # "unlock") =>
               \/ op[t].chunk \notin DOMAIN chunk_locks'
               \/ ~chunk_locks'[op[t].chunk].busy]_vars

\* a read failed with EOF and still holds the lock
C9_Witness ==
    \E t \in Threads :
        /\ ReadDone(t) /\ loc[t].err = "EOF"
        /\ OpStart(t) >= loc[t].image_size

----------------------------------------------------------------------------
\* C10: a read that starts inside the image and would end beyond it trips
\* no assertion, runs into no premature end of file, and when it succeeds
\* returns exactly the size - start bytes up to the end of the image.
C10_StraddleRead ==
    \A t \in Threads :
        (/\ ReadDone(t)
         /\ OpStart(t) < loc[t].image_size
         /\ loc[t].image_size < OpStart(t) + op[t].length) =>
            /\ loc[t].err \notin {"ASSERT", "PREMATURE_EOF"}
            /\ loc[t].ret => Len(loc[t].out) = loc[t].image_size - OpStart(t)

----------------------------------------------------------------------------
(* Lock waits *)

\* t's wait for a chunk lock ends with chunk_trylock returning false
GiveUpStep(t) ==
    pc[t] = "waiting" /\ pc'[t] = "done" /\ op[t].kind \in {"read", "write"}

Holders(c) == {t \in Threads : Holding(t) /\ op[t].chunk = c}
Waiters(c) == {t \in Threads : pc[t] = "waiting" /\ op[t].chunk = c}

\* C17: a lock wait that is cancelled while the chunk is held fails without
\* taking the lock: the holder and the busy flag stay, the entry's waiter
\* count drops by the one the waiter had added, the call fails with
\* INTERRUPTED, no bitmap, counter or store changes, and the call returns
\* without a chunk_unlock.
C17_CancelledWait ==
    [][\A t \in Threads :
         /\ GiveUpStep(t) =>
               LET c == op[t].chunk
               IN /\ c \in DOMAIN chunk_locks'
                  /\ chunk_locks[c].busy /\ chunk_locks'[c].busy
                  /\ chunk_locks'[c].waiters = chunk_locks[c].waiters - 1
                  /\ \A d \in DOMAIN chunk_locks \ {c} :
                        d \in DOMAIN chunk_locks'
                        /\ chunk_locks'[d] = chunk_locks[d]
                  /\ \A u \in Threads : Holding(u)' = Holding(u)
                  /\ ~loc'[t].ret /\ loc'[t].err = "INTERRUPTED"
                  /\ UNCHANGED <<image_size, accessed_map, present_map,
                                 modified_map, files, overlay, chunk_fetches,
                                 chunk_dirties, written>>
         /\ (pc[t] = "done" /\ pc'[t] # "done") =>
               (pc'[t] = "idle" /\ chunk_locks' = chunk_locks)
      ]_vars

C17_Witness ==
    \E t, u \in Threads :
        /\ pc[t] = "done" /\ op[t].kind \in {"read", "write"}
        /\ loc[t].err = "INTERRUPTED"
        /\ Holding(u) /\ op[u].chunk = op[t].chunk
        /\ chunk_locks[op[t].chunk].busy
        /\ chunk_locks[op[t].chunk].waiters = 0

\* no entry of the lock table is both free and without waiters
NoIdleEntry ==
    \A c \in DOMAIN chunk_locks :
        chunk_locks[c].busy \/ chunk_locks[c].waiters > 0

\* C18: chunk_trylock fails only when another thread holds the lock at the
\* moment the waiter gives up (a waiter that finds the lock free takes it),
\* and the table never holds an entry that is free and has no waiters.
C18_FailOnlyWhenHeld ==
    /\ []NoIdleEntry
    /\ [][\A t \in Threads :
            GiveUpStep(t) =>
               /\ chunk_locks[op[t].chunk].busy
               /\ \E u \in Threads \ {t} : u \in Holders(op[t].chunk)
         ]_vars

\* an unlock has handed the entry to a waiter that has not run yet
C18_Witness ==
    \E c \in DOMAIN chunk_locks :
        /\ ~chunk_locks[c].busy
        /\ chunk_locks[c].waiters = 1
        /\ Waiters(c) # {}

\* C19: the lock table has an entry for a chunk only while some thread holds
\* or waits for its lock (busy exactly when held, waiters the number of
\* waiting threads); with no chunk operation in progress the table is empty,
\* which is what chunk_state_free asserts.
C19_TableMinimal ==
    ~aborted =>
      /\ \A c \in DOMAIN chunk_locks :
            /\ Holders(c) \cup Waiters(c) # {}
            /\ chunk_locks[c].busy <=> Holders(c) # {}
            /\ chunk_locks[c].waiters = Cardinality(Waiters(c))
      /\ \A c \in ChunkIds :
            Holders(c) \cup Waiters(c) # {} => c \in DOMAIN chunk_locks
      /\ (\A t \in Threads : pc[t] \in {"idle", "done"}) =>
            DOMAIN chunk_locks = {}

\* every operation has run and released its lock
C19_Witness ==
    /\ nops = MaxOps
    /\ \A t \in Threads : pc[t] = "idle"
    /\ DOMAIN chunk_locks = {}
    /\ chunk_fetches > 0
    /\ ~aborted

----------------------------------------------------------------------------
(* Transport *)

\* the attempts among the events of a call, and the last of them
Tries(h) == Cardinality({k \in 1..Len(h) : h[k] # "sleep"})
LastOf(q) == q[Len(q)]

\* a sleep comes only between a network failure and the attempt after it,
\* and every attempt but the first has such a sleep before it
RetryShape(h) ==
    \A k \in 1..Len(h) :
        /\ h[k] = "sleep" =>
              k > 1 /\ h[k - 1] = "NETWORK" /\ k < Len(h) /\ h[k + 1] # "sleep"
        /\ (h[k] # "sleep" /\ k > 1) =>
              h[k - 1] = "sleep" /\ k > 2 /\ h[k - 2] = "NETWORK"

\* what a finished call returns, from what its attempts did
CallResult ==
    tr.state = "done" =>
        /\ tr.hist # <<>>
        /\ tr.ret <=> LastOf(tr.hist) = "ok"
        /\ ~tr.ret => tr.err = LastOf(tr.hist)
        /\ (~tr.ret /\ tr.err = "NETWORK") => Tries(tr.hist) = TRANSPORT_TRIES
        /\ Tries(tr.hist) = Len(tr.atts)
        /\ Len(tr.hist) = 2 * Tries(tr.hist) - 1

AttemptStep == tr'.atts # tr.atts /\ tr'.atts # <<>>

\* the step in which a fetched chunk is stored and read back
StoreStep == pc[1] = "fetched" /\ pc'[1] # "fetched"

\* C12: _vmnetfs_transport_fetch makes at most five attempts, goes on to the
\* next only after a NETWORK failure and after sleeping, never sleeps before
\* the first or after the last attempt, returns success at the first attempt
\* that succeeds and the NETWORK error after five network failures, and
\* always returns; however many attempts a call takes, chunk_fetches counts
\* the call once and a read that succeeds sets exactly the presence bit of
\* its chunk.
C12_RetryLoop ==
    /\ [](/\ Tries(tr.hist) <= TRANSPORT_TRIES
          /\ RetryShape(tr.hist)
          /\ CallResult
          /\ chunk_fetches = tr.calls)
    /\ [][/\ AttemptStep =>
                UNCHANGED <<chunk_fetches, present_map, files>>
          /\ (StoreStep /\ loc'[1].ret) =>
                /\ ~_vmnetfs_bit_test(present_map, op[1].chunk)
                /\ present_map' = _vmnetfs_bit_set(present_map, op[1].chunk)
                /\ chunk_fetches' = chunk_fetches
         ]_vars
    /\ (tr.state = "loop") ~> (tr.state = "done")

\* two network failures, then a complete transfer, and the chunk is cached
C12_Witness ==
    /\ tr.hist = <<"NETWORK", "sleep", "NETWORK", "sleep", "ok">>
    /\ LastOf(tr.atts).delivered = tr.length
    /\ pc[1] = "unlock" /\ loc[1].ret
    /\ _vmnetfs_bit_test(present_map, op[1].chunk)
    /\ chunk_fetches = 1

\* the last attempt of the call ran to the end of the transfer
Transferred ==
    /\ tr.atts # <<>>
    /\ LastOf(tr.atts).code = "OK"
    /\ ~LastOf(tr.atts).cancel

\* C13: a transfer that ends without error but with another number of bytes
\* than requested makes the call fail with FATAL.
C13_ShortTransferFatal ==
    (tr.state = "done" /\ Transferred
        /\ LastOf(tr.atts).delivered # tr.length) =>
       (~tr.ret /\ tr.err = "FATAL")

\* the ETag of the last response of a redirect chain
FinalEtag(lines) ==
    LET k == CHOOSE j \in 1..Len(lines) :
                 /\ lines[j].kind = "status"
                 /\ \A m \in (j + 1)..Len(lines) : lines[m].kind # "status"
        E == {j \in k..Len(lines) : lines[j].kind = "etag"}
    IN IF E = {} THEN NoEtag
       ELSE lines[CHOOSE j \in E : \A m \in E : m <= j].value

\* the response does not carry the validators the image expects
Mismatch(cfg, att) ==
    \/ cfg.etag # NoEtag /\ FinalEtag(att.hdrs) # cfg.etag
    \/ cfg.last_modified # 0 /\ att.filetime # cfg.last_modified

\* C14: a response whose ETag differs from the expected one or is missing,
\* or whose Last-Modified differs, ends the call with FATAL at that attempt,
\* with nothing copied into the buffer.
C14_ValidatorMismatchFatal ==
    (tr.state = "done" /\ Transferred /\ Mismatch(tr.cfg, LastOf(tr.atts))) =>
       (~tr.ret /\ tr.err = "FATAL")

\* C15: the ETag that is compared is the one of the final response of the
\* current request: connections in the pool hold none, a redirect's ETag is
\* dropped when the next response begins, and a body that arrives with a
\* final ETag other than the expected one is refused.
C15_EtagOfFinalResponse ==
    /\ \A k \in 1..Len(tr.pool) : tr.pool[k] = NoEtag
    /\ tr.atts # <<>> =>
          LET att == LastOf(tr.atts)
          IN /\ tr.etag = FinalEtag(att.hdrs)
             /\ (/\ tr.cfg.etag # NoEtag
                 /\ FinalEtag(att.hdrs) # tr.cfg.etag
                 /\ att.delivered > 0) => LastOf(tr.hist) = "FATAL"

\* the second call on a pooled connection gets the expected ETag on the
\* redirect only and is refused
C15_Witness ==
    /\ tr.calls = 2
    /\ tr.state = "done" /\ ~tr.ret /\ tr.err = "FATAL"
    /\ tr.cfg.etag = "v1"
    /\ LastOf(tr.atts).hdrs = Response("v1") \o Response(NoEtag)
    /\ LastOf(tr.atts).delivered > 0
    /\ tr.pool = <<NoEtag>>

\* the last attempt of the call in progress was cancelled
Cancelled ==
    tr.state # "idle" /\ tr.atts # <<>> /\ LastOf(tr.atts).cancel

\* C16: an attempt during which the cancellation predicate turns true is
\* aborted; the call makes no further attempt, does not sleep and returns
\* INTERRUPTED, and the chunk operation returns INTERRUPTED with the
\* presence bit and the cache as they were.
C16_CancelledFetch ==
    /\ [](Cancelled =>
            /\ LastOf(tr.hist) = "INTERRUPTED"
            /\ tr.state \in {"broke", "done"}
            /\ tr.state = "done" => (~tr.ret /\ tr.err = "INTERRUPTED")
            /\ ~_vmnetfs_bit_test(present_map, op[1].chunk))
    /\ [][Cancelled =>
            /\ tr'.atts = tr.atts /\ tr'.hist = tr.hist
            /\ UNCHANGED <<present_map, files, chunk_fetches>>
            /\ pc'[1] # "fetching" =>
                  /\ pc'[1] = "unlock"
                  /\ ~loc'[1].ret /\ loc'[1].err = "INTERRUPTED"
         ]_vars

\* a retry was cancelled and the read has failed with INTERRUPTED
C16_Witness ==
    /\ pc[1] = "unlock" /\ op[1].kind = "read"
    /\ loc[1].err = "INTERRUPTED"
    /\ tr.hist = <<"NETWORK", "sleep", "INTERRUPTED">>
    /\ LastOf(tr.atts).cancel
    /\ ~_vmnetfs_bit_test(present_map, op[1].chunk)

----------------------------------------------------------------------------
(* Bitmap streams *)

\* the subscriber has its stream and no setter is between its unlock and
\* its write to the stream group
StreamSettled ==
    /\ bs.registered /\ bs.populated
    /\ \A t \in Threads : bs.set[t].pc = "idle"

\* C20: the subscriber's stream, snapshot then tail, holds the index of
\* every set bit exactly once, however the sets and the subscription
\* interleave.
C20_SnapshotThenTail ==
    /\ \A i, j \in 1..Len(bs.strm) : i # j => bs.strm[i] # bs.strm[j]
    /\ StreamSettled =>
          \A b \in Bits :
              _vmnetfs_bit_test(bs.map, b) =>
                 \E i \in 1..Len(bs.strm) : bs.strm[i] = b

----------------------------------------------------------------------------
(* FUSE handlers *)

\* image_write has returned from a call for [start, start + count)
WriteReturned == fuse.state = "returned" /\ fuse.kind = "write"

\* the call in progress has stored nothing at or beyond position p
NothingStoredFrom(p) ==
    \A q \in DOMAIN written : q >= p => written[q] = fuse.mark[q]

\* C11: a write that starts below the image size S and ends beyond it
\* stores and reports exactly S - start bytes; a write that starts at or
\* beyond S stores nothing, returns -ENOSPC and leaves io_errors alone.
C11_WriteAtEOF ==
    WriteReturned =>
       LET S == fuse.size
           start == fuse.cur.start
           count == fuse.cur.count
       IN /\ (start < S /\ start + count > S /\ fuse.err \in {"none", "EOF"}) =>
                /\ fuse.result = Returned(S - start, "none")
                /\ NothingStoredFrom(S)
          /\ start >= S =>
                /\ fuse.result = Returned(0, "ENOSPC")
                /\ fuse.io_errors = fuse.errors0
                /\ NothingStoredFrom(0)

\* the subscriber's snapshot is written in this step
SnapshotStep == ~bs.populated /\ bs'.populated

\* the lines a step adds to the subscriber's stream
Added == SubSeq(bs'.strm, Len(bs.strm) + 1, Len(bs'.strm))

\* C21: a bit whose _vmnetfs_bit_set has returned is in the snapshot of
\* every stream opened afterwards, and a set publishes its bit to the
\* streams of the group only if it found the bit clear: a repeated set
\* publishes nothing.
C21_SetThenSnapshot ==
    /\ [](\A b \in bs.returned : _vmnetfs_bit_test(bs.map, b))
    /\ [][/\ SnapshotStep =>
                \A b \in bs.returned : \E i \in 1..Len(Added) : Added[i] = b
          /\ \A t \in Threads :
                (bs'.set[t] # bs.set[t] /\ bs'.nsets # bs.nsets
                    /\ _vmnetfs_bit_test(bs.map, bs'.set[t].bit)) =>
                   (bs'.strm = bs.strm /\ bs'.set[t].pc = "idle")
          /\ (bs'.strm # bs.strm /\ ~SnapshotStep) =>
                \E t \in Threads :
                    /\ bs.set[t].pc = "publish" /\ bs.set[t].is_new
                    /\ Added = <<bs.set[t].bit>>
         ]_vars

\* a set of bit 2 has returned into a bitmap that held bit 0, then the
\* subscriber took its snapshot, and a repeated set of bit 2 returned
C21_Witness ==
    /\ bs.populated /\ ~bs.registered
    /\ bs.strm = <<0, 2>>
    /\ bs.returned = {2}
    /\ bs.nsets = 2
    /\ \A t \in Threads : bs.set[t].pc = "idle"

----------------------------------------------------------------------------
(* Bitmaps of the image *)


\* bit indices in the first three bytes of a store, so that a set can make
\* a store that already holds bits grow from two bytes to four
GrowBits == {0, 7, 8, 15, 16}

\* _vmnetfs_bit_set on any bitmap over GrowBits keeps the bits that were
\* set, sets its own, and leaves room for it
GrowthKeepsBits ==
    \A S \in SUBSET GrowBits, b \in GrowBits :
        LET m == SetBits(_vmnetfs_bit_new, S)
            n == _vmnetfs_bit_set(m, b)
        IN /\ BitsOf(m) = S
           /\ BitsOf(n) = S \cup {b}
           /\ n.allocated_bytes >= m.allocated_bytes
           /\ b < n.allocated_bytes * 8

\* C22: no step of any read, write, truncate, failure or interrupt clears a
\* bit of the accessed, present or modified bitmap, and a set that makes the
\* backing store grow keeps the bits that were set.
C22_BitsNeverCleared ==
    /\ []GrowthKeepsBits
    /\ [][/\ BitsOf(accessed_map) \subseteq BitsOf(accessed_map')
          /\ BitsOf(present_map) \subseteq BitsOf(present_map')
          /\ BitsOf(modified_map) \subseteq BitsOf(modified_map')
         ]_vars

\* a chunk operation has failed after bits were set in all three bitmaps
C22_Witness ==
    \E t \in Threads :
        /\ pc[t] = "unlock" /\ ~loc[t].ret
        /\ loc[t].err \notin {"none", "EOF"}
        /\ BitsOf(accessed_map) = ChunkIds
        /\ BitsOf(present_map) # {}
        /\ BitsOf(modified_map) # {}

----------------------------------------------------------------------------
(* The cache directory across initialisations *)

\* a name made of decimal digits only
IsDecimal(name) == name # <<>> /\ \A i \in 1..Len(name) : IsDigit(name[i])

\* the files lying in a top-level directory with a numeric name
BucketEntries ==
    {e \in CacheDir(files, cache.extra) : e.isdir /\ IsDecimal(e.dir)}

\* the name of a chunk file of this image, lying in its own bucket
ValidChunkName(e) ==
    /\ IsDecimal(e.file)
    /\ g_ascii_strtoull(e.file).value < chunks
    /\ g_ascii_strtoull(e.dir).value
          = (g_ascii_strtoull(e.file).value \div CHUNKS_PER_DIR) * CHUNKS_PER_DIR

\* C23: initialising the pristine store succeeds only if every file name in
\* a numeric bucket directory is the decimal index of a chunk below the
\* number of chunks of the image, lying in the bucket of that chunk; any
\* other name fails the initialisation with INVALID_CACHE; so after a
\* successful initialisation every presence bit is the index of a chunk of
\* the image.
C23_InitValidatesNames ==
    /\ cache.state = "mounted" =>
          /\ \A e \in BucketEntries : ValidChunkName(e)
          /\ BitsOf(present_map) \subseteq ChunkIds
    /\ cache.state = "failed" =>
          /\ cache.err = "INVALID_CACHE"
          /\ \E e \in BucketEntries : ~ValidChunkName(e)

MountStep == cache.state = "unmounted" /\ cache'.state # "unmounted"

\* C24: an image destroyed and initialised again over the same cache
\* directory has exactly the presence bits it had when it was destroyed:
\* those of the earlier initialisation and those of the chunks fetched and
\* stored since, a bit being added only together with its chunk file; a read
\* of a present chunk starts no fetch from the origin.
C24_PresentSurvivesRemount ==
    [][ /\ (MountStep /\ cache.mounts >= 1) =>
              /\ cache'.state = "mounted"
              /\ BitsOf(present_map') = cache.before
        /\ (cache.state = "mounted" /\ cache'.state = "mounted"
            /\ present_map' # present_map) =>
              /\ pc[1] = "fetched"
              /\ BitsOf(present_map') = BitsOf(present_map) \cup {op[1].chunk}
              /\ op[1].chunk \in DOMAIN files'
        /\ (cache.state = "mounted" /\ pc[1] = "fetched" /\ pc'[1] = "unlock"
            /\ loc'[1].err \notin {"FILE", "ASSERT"}) =>
              op[1].chunk \in BitsOf(present_map')
        /\ (cache.state = "mounted" /\ pc[1] = "locked" /\ pc'[1] # "locked"
            /\ op[1].chunk \in BitsOf(present_map)) =>
              /\ chunk_fetches' = chunk_fetches
              /\ pc'[1] = "unlock"
      ]_vars

\* after the second initialisation, a chunk fetched in the first life of the
\* image is read from the cache without a fetch
C24_Witness ==
    /\ cache.state = "mounted"
    /\ cache.mounts = 2
    /\ pc[1] = "unlock"
    /\ op[1].chunk \notin cache.initial
    /\ op[1].chunk \in cache.before
    /\ loc[1].ret
    /\ loc[1].src = "pristine"
    /\ chunk_fetches = 0

----------------------------------------------------------------------------
(* What image_read and image_write return and count *)

\* the handler has its return value, having run into an error
FailedCall == fuse.state = "returned" /\ fuse.err # "none"

\* C25: a read or write call that fails on a later chunk after the chunk
\* operations before it completed k > 0 bytes returns k and no error; a call
\* that fails with nothing completed returns -EINTR when interrupted, 0 for
\* a read at the end of the image, and -EIO otherwise.
C25_PartialCountReturned ==
    FailedCall =>
        IF fuse.moved > 0
        THEN fuse.result = Returned(fuse.moved, "none")
        ELSE fuse.result =
                CASE fuse.err = "INTERRUPTED" -> Returned(0, "EINTR")
                  [] fuse.err = "EOF" /\ fuse.kind = "read" -> Returned(0, "none")
                  [] OTHER -> Returned(0, "EIO")

\* C26: io_errors goes up by exactly one in a call that returns -EIO and
\* stays as it was in a call that ends at the end of the image, is
\* interrupted or returns a byte count; so io_errors counts the IO errors
\* returned to callers.
C26_IoErrorsCountEIO ==
    fuse.state = "returned" =>
        fuse.io_errors
            = fuse.errors0 + (IF fuse.result.errno = "EIO" THEN 1 ELSE 0)

\* the handler takes the result of a chunk call
ChunkReturnStep == fuse.state = "in_chunk" /\ fuse'.state # "in_chunk"

\* the bytes the chunk call that returns now transferred
Moved(kind) ==
    IF fuse.kind = kind /\ loc[1].ret THEN loc[1].length ELSE 0

\* C27: a successful chunk read or write adds the bytes it transferred, the
\* length after clamping, to bytes_read or bytes_written, a failed one adds
\* nothing; so over a call the counters grow by the bytes returned to the
\* caller.
C27_BytesCountTransferred ==
    /\ [][ChunkReturnStep =>
             /\ fuse'.bytes_read = fuse.bytes_read + Moved("read")
             /\ fuse'.bytes_written = fuse.bytes_written + Moved("write")]_vars
    /\ [](fuse.state = "returned" =>
             fuse.bytes_read + fuse.bytes_written - fuse.bytes0
                 = fuse.result.value)

----------------------------------------------------------------------------
(* The chunk counters *)

Quiescent == \A t \in Threads : pc[t] = "idle"

\* C28: chunk_fetches goes up by one for each chunk fetched from the origin
\* and stored in the cache, once the cache write succeeded, and a failing
\* fetch or cache write leaves it as it was; so with no request in flight it
\* equals the number of presence bits set by fetching since the image was
\* initialised.
C28_FetchesCountStored ==
    (cache.state = "mounted" /\ Quiescent) =>
        chunk_fetches = Cardinality(BitsOf(present_map) \ cache.at_mount)

\* C29: chunk_dirties goes up by one for each chunk whose copy into the
\* overlay succeeded, together with its modified bit, and a failing copy
\* leaves it as it was; so with no request in flight it equals the number
\* of bits set in the modified map.
C29_DirtiesCountModified ==
    Quiescent => chunk_dirties = Cardinality(BitsOf(modified_map))

----------------------------------------------------------------------------
(* Chunks are locked one by one *)

\* the byte the overlay file holds at position p, a hole reading as zero
OverlayByte(file, p) == IF p < Len(file) THEN file[p + 1] ELSE 0

ChunkOf(p) == p \div ChunkSize

\* thread t takes a step of a write call that stores into the overlay
StoreStepOf(t) == pc[t] \in {"cow_write", "apply"} /\ pc'[t] # pc[t]

\* C30: a chunk operation on C never waits because of a holder or waiter of
\* another chunk: chunk_trylock(C) takes the lock at once unless C's own
\* entry is busy, waits only behind a holder of C, and a waiter that leaves
\* its wait takes the lock unless C is still held; a store into the overlay changes
\* bytes and the modified bit of the writer's own chunk only, so concurrent
\* writers of distinct chunks do not touch each other's payload.
C30_ChunksIndependent ==
    [][ /\ \A t \in Threads :
              (pc[t] = "idle" /\ pc'[t] # "idle"
               /\ op'[t].kind \in {"read", "write"}) =>
                  IF Holders(op'[t].chunk) = {}
                  THEN pc'[t] = "locked"
                  ELSE pc'[t] = "waiting"
        /\ \A t \in Threads :
              (pc[t] = "waiting" /\ pc'[t] # "waiting") =>
                  IF Holders(op[t].chunk) = {}
                  THEN pc'[t] = "locked"
                  ELSE pc'[t] = "done" /\ loc'[t].err = "INTERRUPTED"
        /\ \A p \in 0..(chunks * ChunkSize - 1) :
              OverlayByte(overlay', p) # OverlayByte(overlay, p) =>
                  \E t \in Threads : StoreStepOf(t) /\ op[t].chunk = ChunkOf(p)
        /\ \A c \in ChunkIds :
              _vmnetfs_bit_test(modified_map', c)
                  # _vmnetfs_bit_test(modified_map, c) =>
                  \E t \in Threads : StoreStepOf(t) /\ op[t].chunk = c
      ]_vars

\* two writers hold distinct chunks at once, both done with success, each
\* with its modified bit set and its data in the overlay
C30_Witness ==
    \E t, u \in Threads :
        /\ op[t].chunk # op[u].chunk
        /\ \A x \in {t, u} :
              /\ WriteDone(x)
              /\ loc[x].ret
              /\ _vmnetfs_bit_test(modified_map, op[x].chunk)
              /\ OverlayByte(overlay, OpStart(x)) = op[x].data

----------------------------------------------------------------------------
(* The requests of one fetch_data call *)

RECURSIVE LengthsUpTo(_, _)
LengthsUpTo(reqs, n) ==
    IF n = 0 THEN 0 ELSE LengthsUpTo(reqs, n - 1) + reqs[n].length

\* C31: on a segmented origin fetch_data makes its requests in ascending
\* order, each starting where the one before ended, the first at start;
\* each goes to the segment holding its position, at the position's offset
\* in the segment, and ends within that segment; a fetch that succeeds has
\* covered exactly [start, start + count), and a failed request is the last
\* one.  On an unsegmented origin there is one request, for (start, count).
C31_SegmentedRequests ==
    LET R == seg.reqs
        S == seg.segment_size
    IN seg.state # "idle" =>
        /\ \A i \in 1..Len(R) :
              /\ R[i].abs = seg.start0 + LengthsUpTo(R, i - 1)
              /\ R[i].length >= 1
              /\ i < Len(R) => R[i].ok
              /\ S > 0 =>
                    /\ R[i].index = R[i].abs \div S
                    /\ R[i].offset = R[i].abs % S
                    /\ R[i].offset + R[i].length <= S
              /\ S = 0 =>
                    /\ i = 1
                    /\ R[i].index = NoIndex
                    /\ R[i].offset = seg.start0
                    /\ R[i].length = seg.count0
        /\ seg.state = "returned" =>
              /\ seg.ret <=> \A i \in 1..Len(R) : R[i].ok
              /\ seg.ret => LengthsUpTo(R, Len(R)) = seg.count0
              /\ seg.count0 > 0 => Len(R) >= 1

\* a fetch over three segments, starting inside the first, has succeeded
C31_Witness ==
    /\ seg.state = "returned"
    /\ seg.ret
    /\ seg.segment_size = 2
    /\ Len(seg.reqs) = 3
    /\ seg.reqs[1].offset = 1
    /\ seg.reqs[3].index = seg.reqs[1].index + 2

----------------------------------------------------------------------------
(* Observer handles of a counter *)

IncrementStep == stat.state = "live" /\ stat'.incs = stat.incs + 1

\* C32: an increment of a counter makes every handle obtained before it
\* report changed and notifies the poll handle each such handle had
\* registered, exactly once; a handle obtained after an increment reports
\* unchanged until the next increment; a handle that reports changed never
\* reports unchanged again.
C32_ObserversSeeIncrement ==
    /\ [](stat.state = "live" =>
            /\ \A h \in LiveHandles :
                  _vmnetfs_stat_handle_is_changed(stat, h)
                      <=> stat.handles[h].born < stat.incs
            /\ \A ph \in 1..Len(stat.polls) : stat.polls[ph].notified <= 1)
    /\ [][IncrementStep =>
            /\ \A h \in LiveHandles :
                  /\ _vmnetfs_stat_handle_is_changed(stat', h)
                  /\ stat.handles[h].ph # NoPh =>
                        /\ stat.polls[stat.handles[h].ph].notified = 0
                        /\ stat'.polls[stat.handles[h].ph].notified = 1
            /\ \A ph \in 1..Len(stat.polls) :
                  (\A h \in LiveHandles : stat.handles[h].ph # ph) =>
                      stat'.polls[ph] = stat.polls[ph]]_vars
    /\ [][stat.state = "live" =>
            \A h \in LiveHandles :
                (_vmnetfs_stat_handle_is_changed(stat, h)
                 /\ ~stat'.handles[h].freed) =>
                    _vmnetfs_stat_handle_is_changed(stat', h)]_vars

\* two handles were obtained before an increment, one of them with a poll
\* handle, which was notified; the counter is 1 and both report changed
C32_Witness ==
    /\ stat.state = "live"
    /\ stat.incs = 1
    /\ LiveHandles = {1, 2}
    /\ \A h \in LiveHandles : _vmnetfs_stat_handle_is_changed(stat, h)
    /\ Len(stat.polls) = 1
    /\ stat.polls[1].notified = 1

----------------------------------------------------------------------------
(* The connection pool *)

\* the threads that have connection c in hand
UsersOf(c) == {t \in Threads : cpool.th[t].conn = c}

\* how often connection c lies in the queue
TimesQueued(c) ==
    Cardinality({i \in 1..Len(cpool.conns) : cpool.conns[i] = c})

\* C33: in every interleaving of fetches on one pool no connection is used
\* by two fetches at once, and every connection taken is put back on every
\* path out of fetch, so each connection is either in the queue once or in
\* the hand of one fetch; a connection in the queue has no pending error
\* and no captured ETag, and the assertion at the start of a transfer never
\* fails.
C33_ConnectionsExclusive ==
    cpool.state # "idle" =>
        /\ cpool.state = "live"
        /\ \A c \in 1..Len(cpool.conn) :
              /\ Cardinality(UsersOf(c)) + TimesQueued(c) = 1
              /\ TimesQueued(c) = 1 =>
                    /\ cpool.conn[c].err = "none"
                    /\ cpool.conn[c].etag = NoEtag
        /\ \A t \in Threads :
              cpool.th[t].pc = "idle" <=> cpool.th[t].conn = NoConn

\* two fetches run at once on two connections, one of which was used
\* before by a fetch that failed with an error from a callback
C33_Witness ==
    /\ cpool.state = "live"
    /\ cpool.fetches = 3
    /\ Len(cpool.conn) = 2
    /\ \A t \in Threads : cpool.th[t].pc = "perform"
    /\ cpool.conns = <<>>

----------------------------------------------------------------------------
(* The size sampled with the lock *)

\* t's chunk_trylock returns true in this step
AcquireStep(t) ==
    /\ pc[t] \in {"idle", "waiting"}
    /\ pc'[t] = "locked"

\* C34: the image size a successful chunk_trylock reports is the size at
\* the step in which the lock was acquired, read in the same critical
\* section as the take of the lock; a chunk_trylock that fails because the
\* wait was interrupted reports size 0.
C34_SizeSampledWithLock ==
    [][\A t \in Threads :
          /\ AcquireStep(t) =>
                /\ chunk_locks'[op'[t].chunk].busy
                /\ loc'[t].image_size = image_size
                /\ image_size' = image_size
          /\ GiveUpStep(t) => loc'[t].image_size = 0]_vars

\* a thread holds a lock with the size a truncate left in hand
C34_Witness ==
    \E t \in Threads :
        /\ pc[t] = "locked"
        /\ image_size < InitialSize
        /\ loc[t].image_size = image_size

----------------------------------------------------------------------------
(* Stores written under the chunk lock *)

\* what the pristine store and the overlay hold for chunk c
StoredAs(fs, c) == IF c \in DOMAIN fs THEN fs[c] ELSE <<-1>>

\* the pristine file of c, its presence bit or its modified bit changes
StoreChange(c) ==
    \/ StoredAs(files', c) # StoredAs(files, c)
    \/ _vmnetfs_bit_test(present_map', c) # _vmnetfs_bit_test(present_map, c)
    \/ _vmnetfs_bit_test(modified_map', c) # _vmnetfs_bit_test(modified_map, c)

\* t asks the origin for its chunk in this step
FetchStep(t) ==
    /\ pc[t] = "locked"
    /\ pc'[t] # "locked"
    /\ chunk_fetches' # chunk_fetches

\* t's read_chunk_unlocked, which had fetched, ends with success
FetchStored(t) ==
    /\ pc[t] = "fetched"
    /\ pc'[t] # "fetched"
    /\ loc'[t].ret

----------------------------------------------------------------------------
(* Wakeups of the chunk locks *)

\* the lock of chunk c is free and threads are counted as waiting for it
FreeWithWaiters(c) ==
    /\ lk.state = "live"
    /\ c \in DOMAIN lk.locks
    /\ ~lk.locks[c].busy
    /\ lk.locks[c].waiters > 0

\* the threads in chunk_trylock's wait for c that are out of their sleep
Runnable(c) ==
    {t \in LockThreads : /\ lk.th[t].pc \in {"woken", "interrupted"}
                         /\ lk.th[t].chunk = c}

\* C36: no wakeup of a release is lost.  Whenever the lock of a chunk is
\* free with waiters counted, one of the waiters is out of its sleep and
\* is counted, so not all of them are blocked; and with holders that
\* unlock in the end and a fair scheduler the free lock is taken in the
\* end, also when the signalled waiter is interrupted or a new caller
\* takes the lock first.
C36_NoLostWakeup ==
    /\ [](\A c \in ChunkIds :
             /\ FreeWithWaiters(c) => Runnable(c) # {}
             /\ (lk.state = "live" /\ c \in DOMAIN lk.locks) =>
                   lk.locks[c].waiters =
                      Cardinality(Asleep(lk, c) \cup Runnable(c)))
    /\ \A c \in ChunkIds :
          FreeWithWaiters(c) ~> (c \in DOMAIN lk.locks /\ lk.locks[c].busy)

\* a lock is free while the waiter that was signalled has been interrupted
\* and another waiter is still asleep
C36_Witness ==
    \E c \in ChunkIds, t, u \in LockThreads :
        /\ FreeWithWaiters(c)
        /\ lk.locks[c].waiters = 2
        /\ lk.th[t].pc = "interrupted" /\ lk.th[t].chunk = c
        /\ lk.th[u].pc = "asleep" /\ lk.th[u].chunk = c

----------------------------------------------------------------------------
(* Every acquired lock released once *)

\* the steps of a call between chunk_trylock and its return
CallStep(t) ==
    \/ ReadChunk(t)
    \/ ReadFetched(t)
    \/ WriteChunk(t)
    \/ CowWrite(t)
    \/ WriteData(t)
    \/ Unlock(t)

\* t's call runs chunk_unlock in this step
UnlockStep(t) == pc[t] = "unlock" /\ pc'[t] # "unlock"

\* C37: a call of _vmnetfs_io_read_chunk or _vmnetfs_io_write_chunk that
\* acquired the lock releases it once, on every path: each busy lock has
\* exactly one call between its acquisition and its release, that call can
\* always go on, it stops holding only by its chunk_unlock, which finds
\* the entry busy and is the return of the call; a call whose acquisition
\* failed returns without touching the table; the assertion of
\* chunk_unlock never fails.
C37_ReleasedOnce ==
    /\ [](\A c \in ChunkIds :
             Cardinality(Holders(c)) =
                IF c \in DOMAIN chunk_locks /\ chunk_locks[c].busy THEN 1 ELSE 0)
    /\ [](\A t \in Threads : (Holding(t) /\ ~aborted) => ENABLED CallStep(t))
    /\ [][\A t \in Threads :
             /\ (Holding(t) /\ ~Holding(t)') =>
                   /\ UnlockStep(t)
                   /\ pc'[t] = "idle"
                   /\ op[t].chunk \in DOMAIN chunk_locks
                   /\ chunk_locks[op[t].chunk].busy
                   /\ chunk_locks' = chunk_unlock(chunk_locks, op[t].chunk)
                   /\ aborted' = aborted
             /\ (Holding(t) /\ Holding(t)') =>
                   /\ op[t].chunk \in DOMAIN chunk_locks'
                   /\ chunk_locks'[op[t].chunk].busy
                   /\ op'[t].chunk = op[t].chunk
             /\ (pc[t] = "done" /\ pc'[t] # "done") =>
                   chunk_locks' = chunk_locks]_vars

\* a write that failed is about to release its lock, and the call that
\* gave up its wait for the same lock is about to return
C37_Witness ==
    \E t, u \in Threads :
        /\ WriteDone(t)
        /\ ~loc[t].ret
        /\ pc[u] = "done"
        /\ loc[u].err = "INTERRUPTED"
        /\ op[u].chunk = op[t].chunk

----------------------------------------------------------------------------
(* _vmnetfs_safe_pread *)

\* pread is called in this step
PreadStep == rd.state = "loop" /\ rd'.preads = rd.preads + 1

\* C38: _vmnetfs_safe_pread returns success only when exactly count bytes
\* were read, into the buffer from its start; a pread that returns 0 before
\* that ends it with PREMATURE_EOF; a pread that returns -1 ends it at once
\* with a file error, with the buffer position, the offset and the count
\* left as they were.
C38_SafePreadStopsOnError ==
    /\ [](rd.state = "returned" /\ rd.ret =>
             rd.got = {<<i, rd.offset0 + i>> : i \in 0..(rd.count0 - 1)})
    /\ [][PreadStep =>
             /\ rd'.last = 0 =>
                   /\ rd'.state = "returned"
                   /\ ~rd'.ret
                   /\ rd'.err = "PREMATURE_EOF"
             /\ rd'.last = -1 =>
                   /\ rd'.state = "returned"
                   /\ ~rd'.ret
                   /\ rd'.err = "FILE"
                   /\ rd'.pos = rd.pos
                   /\ rd'.offset = rd.offset
                   /\ rd'.count = rd.count]_vars

----------------------------------------------------------------------------
(* The cursor *)

\* the end of the part of the range that slice i's call transferred
SliceEnd(i) == cu.slices[i].position + cu.slices[i].progress

\* C39: for every start, count >= 1 and chunk size, with chunk calls that
\* report progress between 1 and the length of their slice, the slices of
\* _vmnetfs_cursor_chunk follow one another without gap or overlap from
\* start on, each inside one chunk and inside the range, with length at
\* least 1; the loop makes at most count chunk calls, and when it returns
\* without a failure the slices end at start + count and it returns count.
C39_CursorCoversRange ==
    cu.state # "idle" =>
        /\ \A i \in 1..Len(cu.slices) :
              LET sl == cu.slices[i]
              IN /\ sl.position = IF i = 1 THEN cu.cur.start
                                  ELSE SliceEnd(i - 1)
                 /\ sl.position = sl.chunk * cu.chunk_size + sl.offset
                 /\ sl.offset < cu.chunk_size
                 /\ 1 <= sl.length
                 /\ sl.offset + sl.length <= cu.chunk_size
                 /\ sl.position + sl.length <= cu.cur.start + cu.cur.count
                 /\ (i < Len(cu.slices) \/ ~cu.failed) => sl.progress >= 1
        /\ Len(cu.slices) <= cu.cur.count
        /\ cu.state = "chunk" =>
              /\ cu.cur.length >= 1
              /\ cu.cur.io_offset < cu.cur.count
        /\ (cu.state = "returned" /\ ~cu.failed) =>
              /\ cu.slices # <<>>
              /\ SliceEnd(Len(cu.slices)) = cu.cur.start + cu.cur.count
              /\ cu.result = cu.cur.count

\* a range over two chunks was walked in three calls, the second of which
\* reported less than its slice
C39_Witness ==
    /\ cu.state = "returned"
    /\ ~cu.failed
    /\ Len(cu.slices) = 3
    /\ cu.slices[1].offset > 0
    /\ cu.slices[1].chunk < cu.slices[2].chunk
    /\ cu.slices[2].chunk = cu.slices[3].chunk
    /\ cu.slices[2].progress < cu.slices[2].length
    /\ cu.result = cu.cur.count

----------------------------------------------------------------------------
(* write_callback *)

\* C40: during a transfer conn->offset never exceeds conn->length: each
\* call of write_callback copies at most length - offset bytes of what it
\* was handed, so no byte of a body longer than the range is written
\* outside the buffer; and bytes are copied only after the validators were
\* checked, with offset still 0, and passed.
C40_WriteWithinBuffer ==
    wc.state # "idle" =>
        /\ wc.conn.offset <= wc.conn.length
        /\ \A i \in wc.conn.wrote : i < wc.conn.length
        /\ wc.conn.wrote = 0..(wc.conn.offset - 1)
        /\ wc.copied <= wc.handed
        /\ wc.copied <= wc.conn.length - wc.before
        /\ wc.conn.offset = wc.before + wc.copied
        /\ wc.conn.offset > 0 =>
              /\ wc.conn.checks >= 1
              /\ wc.conn.err = "none"
              /\ check_validators(wc.conn.cfg, wc.conn.etag,
                                  wc.conn.filetime) = "none"
        /\ wc.conn.err # "none" => wc.conn.offset = 0

\* the buffer is full and the callback took none of the bytes that the
\* body still had
C40_Witness ==
    /\ wc.state = "aborted"
    /\ wc.conn.length = MaxLength
    /\ wc.conn.offset = wc.conn.length
    /\ wc.before = wc.conn.length
    /\ wc.handed = MaxDeliver
    /\ wc.copied = 0
    /\ wc.conn.cfg.etag = "v1"

====
